---- MODULE Spec2Model ----
(***************************************************************************)
(* A model of minitel_gpt.py: the 40-column formatter (wrap_40,            *)
(* display_wrapped, display_streaming) and the serial line discipline      *)
(* (SerialMinitel.read_line).                                              *)
(*                                                                         *)
(* A Python str is a sequence of one-character strings.  The terminal is   *)
(* the sequence of everything SerialMinitel.write sent, in order; the      *)
(* 20-character pause text "-- suite (touche) --" is kept as one element   *)
(* (Marker) so that it can be told apart from response text.               *)
(***************************************************************************)
EXTENDS Integers, Sequences, FiniteSets, TLC

\* ------------------------------------------------------------------------
\* Program constants
\* ------------------------------------------------------------------------
WRAP_COLS == 40
PAGE_LINES == 18
LINE_DELAY_MS == 80
MAX_HISTORY_CHARS == 16000
CHAR_DELAY_MS == 0
DEFAULT_MODEL == "gpt-4o-mini"

\* The length threshold of the word-boundary branch (len(buffer) > 10)
FLUSH_MIN == 10

\* len("-- suite (touche) --")
MARKER_LEN == 20

\* The blanks written over the pause text (" " * 22)
ERASE_BLANKS == 22

\* ------------------------------------------------------------------------
\* Bounds of the model
\* ------------------------------------------------------------------------
\* Number of parts (a word or a separator) a text is built from
MaxParts == 4

\* Number of bytes the terminal sends
MaxRead == 5
\* Number of bytes waiting in the serial port
MaxWait == 1
\* Polls of 0.1 s followed after the timeout of a read_line call has passed
MaxOver == 2
\* Number of successive read_line calls
MaxCalls == 2
\* Number of serial ports list_serial_ports finds
MaxPorts == 2
\* Depth of the recursion of run_serial_autoconfig
MaxPasses == 2
\* Number of bytes without a 'y' received in one probe window
MaxProbeBytes == 2
\* Number of messages in a history.json the program did not write
MaxFile == 3
\* Number of bytes that wait in a transport's input
MaxIn == 2
\* Number of chunks the remote service sends in one exchange
MaxChunks == 2
\* Number of sessions counted in one run of the process
MaxSessions == 2

\* ------------------------------------------------------------------------
\* Characters and Python string primitives
\* ------------------------------------------------------------------------
SP == " "
NL == "\n"
CR == "\r"
Marker == "-- suite (touche) --"

\* str.isspace for the characters that occur here
IsSpace(c) == c \in {SP, NL, CR, "\t"}

Min(a, b) == IF a < b THEN a ELSE b
Max(a, b) == IF a > b THEN a ELSE b

\* n copies of c
Rep(c, n) == [i \in 1..n |-> c]

\* s[:n], negative n counted from the end as Python does
PyPrefix(s, n) ==
    IF n >= 0 THEN SubSeq(s, 1, Min(n, Len(s)))
    ELSE SubSeq(s, 1, Max(Len(s) + n, 0))

\* s[n:], negative n counted from the end as Python does
PySuffix(s, n) ==
    IF n >= 0 THEN SubSeq(s, Min(n, Len(s)) + 1, Len(s))
    ELSE SubSeq(s, Max(Len(s) + n, 0) + 1, Len(s))

\* c in s
Contains(s, c) == \E i \in 1..Len(s) : s[i] = c

\* s.index(c), 0-based; only used when c is in s
PyIndex(s, c) == (CHOOSE i \in 1..Len(s) : s[i] = c /\ \A j \in 1..(i-1) : s[j] # c) - 1

\* s.rfind(c), 0-based, -1 when c is not in s
PyRFind(s, c) ==
    IF Contains(s, c)
    THEN (CHOOSE i \in 1..Len(s) : s[i] = c /\ \A j \in (i+1)..Len(s) : s[j] # c) - 1
    ELSE -1

\* s.lstrip()
LStrip(s) ==
    IF \A i \in 1..Len(s) : IsSpace(s[i]) THEN <<>>
    ELSE SubSeq(s, CHOOSE i \in 1..Len(s) :
                      ~IsSpace(s[i]) /\ \A j \in 1..(i-1) : IsSpace(s[j]),
                Len(s))

\* s.strip() == "" (the test `not paragraph.strip()`)
IsBlank(s) == \A i \in 1..Len(s) : IsSpace(s[i])

\* text.split("\n")
RECURSIVE SplitNL(_)
SplitNL(s) ==
    IF Contains(s, NL)
    THEN <<PyPrefix(s, PyIndex(s, NL))>> \o SplitNL(PySuffix(s, PyIndex(s, NL) + 1))
    ELSE <<s>>

\* "".join(parts)
RECURSIVE Join(_)
Join(parts) == IF parts = <<>> THEN <<>> ELSE Head(parts) \o Join(Tail(parts))

\* ------------------------------------------------------------------------
\* textwrap.wrap(paragraph, width, break_long_words=True), as wrap_40 calls
\* it, for text made of letters and blanks (no tab, no hyphen): the
\* library's _split and _wrap_chunks.
\* ------------------------------------------------------------------------
\* TextWrapper._split: the maximal runs of blanks and of non-blanks, in order
SplitRuns(s) ==
    LET starts == {i \in 1..Len(s) : i = 1 \/ IsSpace(s[i]) # IsSpace(s[i-1])}
        start(k) == CHOOSE i \in starts : Cardinality({j \in starts : j <= i}) = k
        stop(k) == IF k = Cardinality(starts) THEN Len(s) ELSE start(k + 1) - 1
    IN [k \in 1..Cardinality(starts) |-> SubSeq(s, start(k), stop(k))]

\* The inner `while chunks:` of _wrap_chunks: take chunks while they fit
RECURSIVE FillLine(_, _, _, _)
FillLine(chunks, cur_line, cur_len, width) ==
    IF chunks # <<>> /\ cur_len + Len(Head(chunks)) <= width
    THEN FillLine(Tail(chunks), Append(cur_line, Head(chunks)),
                  cur_len + Len(Head(chunks)), width)
    ELSE [chunks |-> chunks, cur_line |-> cur_line, cur_len |-> cur_len]

\* TextWrapper._handle_long_word with break_long_words: the part of the
\* chunk that fits goes on the current line, the rest stays queued
HandleLongWord(chunks, cur_line, cur_len, width) ==
    LET space_left == IF width < 1 THEN 1 ELSE width - cur_len
        chunk == Head(chunks)
    IN [chunks |-> <<PySuffix(chunk, space_left)>> \o Tail(chunks),
        cur_line |-> Append(cur_line, PyPrefix(chunk, space_left))]

\* TextWrapper._wrap_chunks (drop_whitespace, no indent, no max_lines)
RECURSIVE WrapChunks(_, _, _)
WrapChunks(chunks, lines, width) ==
    IF chunks = <<>> THEN lines
    ELSE
      LET c1 == IF IsBlank(Head(chunks)) /\ lines # <<>> THEN Tail(chunks) ELSE chunks
          f == FillLine(c1, <<>>, 0, width)
          g == IF f.chunks # <<>> /\ Len(Head(f.chunks)) > width
               THEN HandleLongWord(f.chunks, f.cur_line, f.cur_len, width)
               ELSE [chunks |-> f.chunks, cur_line |-> f.cur_line]
          cl == IF g.cur_line # <<>> /\ IsBlank(g.cur_line[Len(g.cur_line)])
                THEN SubSeq(g.cur_line, 1, Len(g.cur_line) - 1)
                ELSE g.cur_line
      IN WrapChunks(g.chunks, IF cl # <<>> THEN Append(lines, Join(cl)) ELSE lines, width)

TextWrap(paragraph, width) == WrapChunks(SplitRuns(paragraph), <<>>, width)

\* ------------------------------------------------------------------------
\* wrap_40
\* ------------------------------------------------------------------------
\* wrap_40's loop with blank paragraphs skipped instead of kept
RECURSIVE WrapParagraphs_SkipBlank(_, _)
WrapParagraphs_SkipBlank(paragraphs, width) ==
    IF paragraphs = <<>> THEN <<>>
    ELSE LET paragraph == Head(paragraphs)
         IN (IF IsBlank(paragraph) THEN <<>> ELSE TextWrap(paragraph, width))
            \o WrapParagraphs_SkipBlank(Tail(paragraphs), width)

\* wrap_40's loop: lines 76-81
RECURSIVE WrapParagraphs(_, _)
WrapParagraphs(paragraphs, width) ==
    IF paragraphs = <<>> THEN <<>>
    ELSE LET paragraph == Head(paragraphs)
             wrapped == TextWrap(paragraph, width)
         IN (IF IsBlank(paragraph) THEN << <<>> >>
             ELSE IF wrapped # <<>> THEN wrapped ELSE << <<>> >>)
            \o WrapParagraphs(Tail(paragraphs), width)

wrap_40(text, width) == WrapParagraphs(SplitNL(text), width)

\* ------------------------------------------------------------------------
\* State
\* ------------------------------------------------------------------------
VARIABLES
    fn,                \* the entry point that was called
    text,              \* the text to display (display_wrapped's argument, or
                       \* everything text_generator will yield)
    sent,              \* how many characters of text the generator has yielded
    page_lines,        \* the page_lines argument
    pagination,        \* minitel._pagination_enabled
    out,               \* everything written to the terminal so far
    key,               \* what the last wait_keypress returned (NoByte or a byte)
    waits,             \* how many wait_keypress calls have returned
    pc,                \* where the running call is
    lines,             \* display_wrapped: the lines not yet written
    full_text,         \* display_streaming locals
    buffer,
    line_count,
    current_line_len,
    remaining,
    segment,
    ret,               \* the value the call returned
    rl_pc,             \* read_line: where the call is
    rl_echo,           \* read_line's echo argument
    rl_timeout,        \* read_line's timeout argument, in polls of 0.1 s
    rl_elapsed,        \* time.time() - start_time, in polls of 0.1 s
    rl_buffer,         \* read_line's buffer, a list of characters (code points)
    rl_byte,           \* the last value read_byte returned to read_line
    rl_nread,          \* how many bytes have been read from the serial port
    rl_tx,             \* the bytes the running read_line call has written
    rl_ret,            \* the value read_line returned
    rl_sent,           \* every byte the terminal has sent, in order; those
                       \* after the first rl_nread wait in the serial port
    rl_start,          \* rl_nread when the running read_line call began
    rl_peeks,          \* positions in rl_sent read by read_byte(timeout=0.05)
    rl_lines,          \* what the earlier and the running read_line calls
                       \* returned, each with the way it ended
    ac_pc,             \* run_serial_autoconfig: where the call is
    ac_pass,           \* how deep the recursion of run_serial_autoconfig is
    ac_ports,          \* len(ports), the ports list_serial_ports returned
    ac_port,           \* selected_port, as its 1-based place in ports
    ac_i,              \* the place in SERIAL_CONFIGS of `config`
    ac_opened,         \* the candidates serial.Serial was called for, this pass
    ac_buffer,         \* the bytes received in the running window
    ac_elapsed,        \* time.time() - start_time, in read timeouts of 0.5 s
    ac_seen,           \* the kinds of failure met in this pass
    ac_last_ack,       \* the latest candidate of this pass whose window
                       \* received a 'y' or 'Y' (0: none yet)
    ac_ret,            \* the value run_serial_autoconfig returned
    hs_max_turns,      \* HistoryStore.max_turns
    hs_max_chars,      \* HistoryStore.max_chars
    hs_messages,       \* HistoryStore.messages
    hs_file,           \* what history.json holds
    hs_op,             \* the HistoryStore method that ran last
    hs_before,         \* the messages as that method handed them to _trim
    sh_pc,             \* run_shell: where the call is
    sh_ret,            \* the value run_shell returned
    sh_stream,         \* run_shell's stream argument
    sh_delay,          \* minitel.line_delay_ms
    sh_config,         \* config.data: its model and line_delay_ms entries
    sh_disk,           \* the same entries in minitel_config.json
    sh_saved,          \* config.save() was called in the last turn
    sh_model,          \* run_shell's local `model`
    sh_debug_rx,       \* run_shell's local `debug_rx`
    sh_pagination,     \* minitel._pagination_enabled
    sh_input,          \* the line read_line returned in the last turn
    sh_request,        \* the request made to the remote service in the last
                       \* turn (<<>>: none)
    sh_out,            \* the calls made on minitel in the last turn
    tr_kind,           \* a transport: "serial" or "simulated"
    tr_open,           \* what its is_open() returns
    tr_in,             \* the bytes the terminal sent that no call has taken
    tr_op,             \* the last method called on it
    tr_was_open,       \* what is_open() returned when that call was made
    tr_emitted,        \* what that call put on the terminal
    tr_taken,          \* how many waiting bytes that call took
    tr_ret,            \* what that call returned
    oc_pc,             \* OpenAIClientWrapper.call: where the generator is
    oc_attempt,        \* its loop variable `attempt`
    oc_retry_delay,    \* its local `retry_delay`
    oc_slept,          \* the arguments of its time.sleep calls, in order
    oc_out,            \* what it has yielded, in order
    oc_raised,         \* the exceptions its attempts raised, in order
    mn_pc,             \* main: where the process is
    mn_simulate,       \* args.simulate
    mn_port_arg,       \* a port was given with --port
    mn_file,           \* minitel_config.json: "absent", "noport" (no port entry) or "stored"
    mn_data,           \* config.data: "empty", "noport", "file" (as the file) or "arg"
    mn_session_open,   \* the session transport `minitel` is open
    mn_probe_open,     \* run_serial_autoconfig holds an open serial.Serial
    mn_saved,          \* history.save() has run since the session started
    mn_sessions,       \* how many sessions were started (counted up to MaxSessions)
    mn_interrupted,    \* an interrupt signal has arrived during a session
    mn_restarted,      \* a transport was opened or a session started after it
    mn_since_reset,    \* no prober run since the last "/reset"
    mn_since_retry     \* no prober run since the operator last chose to reconfigure

displayVars == <<fn, text, sent, page_lines, pagination, out, key, waits, pc, lines,
                 full_text, buffer, line_count, current_line_len, remaining, segment, ret>>

readLineVars == <<rl_pc, rl_echo, rl_timeout, rl_elapsed, rl_buffer, rl_byte, rl_nread,
                  rl_tx, rl_ret, rl_sent, rl_start, rl_peeks, rl_lines>>

probeVars == <<ac_pc, ac_pass, ac_ports, ac_port, ac_i, ac_opened, ac_buffer, ac_elapsed,
               ac_seen, ac_last_ack, ac_ret>>

historyVars == <<hs_max_turns, hs_max_chars, hs_messages, hs_file, hs_op, hs_before>>

shellVars == <<sh_pc, sh_ret, sh_stream, sh_delay, sh_config, sh_disk, sh_saved, sh_model,
               sh_debug_rx, sh_pagination, sh_input, sh_request, sh_out>>

transportVars == <<tr_kind, tr_open, tr_in, tr_op, tr_was_open, tr_emitted, tr_taken, tr_ret>>

clientVars == <<oc_pc, oc_attempt, oc_retry_delay, oc_slept, oc_out, oc_raised>>

mainVars == <<mn_pc, mn_simulate, mn_port_arg, mn_file, mn_data, mn_session_open, mn_probe_open, mn_saved, mn_sessions, mn_interrupted, mn_restarted, mn_since_reset, mn_since_retry>>

vars == <<displayVars, readLineVars, probeVars, historyVars, shellVars, transportVars, clientVars, mainVars>>

\* What a step of one component leaves alone; run_shell owns the history
offDisplay == <<readLineVars, probeVars, historyVars, shellVars, transportVars, clientVars, mainVars>>
offReadLine == <<displayVars, probeVars, historyVars, shellVars, transportVars, clientVars, mainVars>>
offProbe == <<displayVars, readLineVars, historyVars, shellVars, transportVars, clientVars, mainVars>>
offHistory == <<displayVars, readLineVars, probeVars, shellVars, transportVars, clientVars, mainVars>>
offShell == <<displayVars, readLineVars, probeVars, transportVars, clientVars, mainVars>>
offTransport == <<displayVars, readLineVars, probeVars, historyVars, shellVars, clientVars, mainVars>>
offClient == <<displayVars, readLineVars, probeVars, historyVars, shellVars, transportVars, mainVars>>
offMain == <<displayVars, readLineVars, probeVars, historyVars, shellVars, transportVars, clientVars>>

\* Python's None where a string may be returned, and where a byte may be
None == <<"None">>
NoByte == -1

\* None as read_line returns it: no string, whose characters are code points
NoLine == <<NoByte>>

\* None as run_serial_autoconfig returns it; a configuration is returned as
\* a one-element sequence
NoConfig == <<>>

\* history.json does not exist, or does not hold a JSON list
NoFile == [kind |-> "absent", data |-> <<>>]
NotAList == [kind |-> "not a list", data |-> <<>>]

\* history.json holds the JSON list of these messages
FileOf(msgs) == [kind |-> "list", data |-> msgs]

\* No HistoryStore is in use
HistoryIdle ==
    /\ hs_max_turns = 0
    /\ hs_max_chars = 0
    /\ hs_messages = <<>>
    /\ hs_file = NoFile
    /\ hs_op = "none"
    /\ hs_before = <<>>

\* No OpenAIClientWrapper.call is running
ClientIdle ==
    /\ oc_pc = "idle"
    /\ oc_attempt = 0
    /\ oc_retry_delay = 0
    /\ oc_slept = <<>>
    /\ oc_out = <<>>
    /\ oc_raised = <<>>

\* main is not followed
MainIdle ==
    /\ mn_pc = "idle"
    /\ mn_simulate = FALSE
    /\ mn_port_arg = FALSE
    /\ mn_file = "absent"
    /\ mn_data = "empty"
    /\ mn_session_open = FALSE
    /\ mn_probe_open = FALSE
    /\ mn_saved = FALSE
    /\ mn_sessions = 0
    /\ mn_interrupted = FALSE
    /\ mn_restarted = FALSE
    /\ mn_since_reset = FALSE
    /\ mn_since_retry = FALSE

\* No transport is followed
TransportIdle ==
    /\ tr_kind = "none"
    /\ tr_open = FALSE
    /\ tr_in = <<>>
    /\ tr_op = "none"
    /\ tr_was_open = FALSE
    /\ tr_emitted = <<>>
    /\ tr_taken = 0
    /\ tr_ret = [none |-> TRUE, value |-> <<>>]

\* No run_shell call is running
ShellIdle ==
    /\ sh_pc = "idle"
    /\ sh_ret = "none"
    /\ sh_stream = FALSE
    /\ sh_delay = 0
    /\ sh_config = <<>>
    /\ sh_disk = <<>>
    /\ sh_saved = FALSE
    /\ sh_model = <<>>
    /\ sh_debug_rx = FALSE
    /\ sh_pagination = FALSE
    /\ sh_input = None
    /\ sh_request = <<>>
    /\ sh_out = <<>>

\* No run_serial_autoconfig call is running
ProbeIdle ==
    /\ ac_pc = "idle"
    /\ ac_pass = 0
    /\ ac_ports = 0
    /\ ac_port = 0
    /\ ac_i = 0
    /\ ac_opened = <<>>
    /\ ac_buffer = <<>>
    /\ ac_elapsed = 0
    /\ ac_seen = {}
    /\ ac_last_ack = 0
    /\ ac_ret = NoConfig

\* ------------------------------------------------------------------------
\* Inputs
\* ------------------------------------------------------------------------
\* Lengths of the words texts are built from
WordLens == {1, 10, 30}

\* The i-th part of a text, when it is a word, is made of the i-th letter
Letters == <<"a", "b", "c", "d", "e", "f">>

\* Texts of exactly n parts, each a word, one blank or one line break
RECURSIVE TextsOf(_)
TextsOf(n) ==
    IF n = 0 THEN {<<>>}
    ELSE UNION {{t \o Rep(Letters[n], w) : w \in WordLens}
                \cup {t \o <<SP>>, t \o <<NL>>} : t \in TextsOf(n - 1)}

\* The 45-character unbroken token of the specification's scenario
LongToken == Rep("a", 45)

Texts == UNION {TextsOf(n) : n \in 0..MaxParts} \cup {LongToken}

\* Sizes of the chunks the generator yields; the long token is cut at
\* every place
ChunkLens == {1, 11, 46}
ChunkSizes(t) == IF t = LongToken THEN 1..Len(t) ELSE ChunkLens

\* Page heights
PageHeights == {1, 2}

\* Bytes a key press can deliver
KeyBytes == {13, 32}

\* ------------------------------------------------------------------------
\* SerialMinitel.write / writeln on an open transport, and the pause
\* ------------------------------------------------------------------------
Write(o, s) == o \o s
Writeln(o, s) == Write(o, s \o <<CR, NL>>)

\* minitel.writeln(); minitel.write("-- suite (touche) --")
PauseMarker(o) == Write(Writeln(o, <<>>), <<Marker>>)

\* minitel.write("\r" + " " * 22 + "\r")
EraseMarker(o) == Write(o, <<CR>> \o Rep(SP, ERASE_BLANKS) \o <<CR>>)

\* ------------------------------------------------------------------------
\* display_streaming.  The formatter runs from one blocking point to the
\* next: waiting for the generator's next chunk ("recv"), or inside
\* wait_keypress at one of the three pauses.  A record f holds the locals;
\* DsStep is one pass through the code at f.pc.
\* ------------------------------------------------------------------------
DsBlocking == {"recv", "pause_nlwrap", "pause_nl", "pause_sp", "done"}

\* DsPaginate without the wait_keypress call
DsPaginate_NoWait(f, pag, pl, pausepc, nextpc) ==
    IF pag /\ f.line_count >= pl
    THEN [f EXCEPT !.out = EraseMarker(PauseMarker(f.out)), !.line_count = 0,
                   !.pc = nextpc]
    ELSE [f EXCEPT !.pc = nextpc]

\* `if minitel.is_pagination_enabled() and line_count >= page_lines:` and
\* the pause it guards, up to the wait_keypress call
DsPaginate(f, pag, pl, pausepc, nextpc) ==
    IF pag /\ f.line_count >= pl
    THEN [f EXCEPT !.out = PauseMarker(f.out), !.pc = pausepc]
    ELSE [f EXCEPT !.pc = nextpc]

\* CutPoint with the hard split one column early
CutPoint_OneShort(s, space_left) ==
    LET cut_point == PyRFind(PyPrefix(s, space_left), SP)
    IN IF cut_point <= 0 THEN space_left - 1 ELSE cut_point

\* CutPoint without the hard split: with no blank to cut at, nothing is cut
CutPoint_NoHardSplit(s, space_left) ==
    LET cut_point == PyRFind(PyPrefix(s, space_left), SP)
    IN IF cut_point <= 0 THEN 0 ELSE cut_point

\* The else branch shared by the three wrapping loops: cut s at the last
\* blank of the room left or, failing that, at the room left
CutPoint(s, space_left) ==
    LET cut_point == PyRFind(PyPrefix(s, space_left), SP)
    IN IF cut_point <= 0 THEN space_left ELSE cut_point

\* DsLoop without the word-boundary branch
DsLoop_NoWordFlush(f) ==
    IF f.buffer = <<>> THEN [f EXCEPT !.pc = "recv"]
    ELSE IF Contains(f.buffer, NL) THEN
        LET idx == PyIndex(f.buffer, NL)
            seg == PyPrefix(f.buffer, idx)
            g == [f EXCEPT !.segment = seg, !.buffer = PySuffix(f.buffer, idx + 1)]
        IN IF f.current_line_len + Len(seg) <= WRAP_COLS
           THEN [g EXCEPT !.out = Write(f.out, seg),
                          !.current_line_len = f.current_line_len + Len(seg),
                          !.pc = "nlend"]
           ELSE [g EXCEPT !.remaining = seg, !.pc = "nlwrap"]
    ELSE [f EXCEPT !.pc = "recv"]

\* DsLoop when the word-boundary branch takes the whole buffer
DsLoop_WholeBuffer(f) ==
    IF f.buffer = <<>> THEN [f EXCEPT !.pc = "recv"]
    ELSE IF Contains(f.buffer, NL) THEN
        LET idx == PyIndex(f.buffer, NL)
            seg == PyPrefix(f.buffer, idx)
            g == [f EXCEPT !.segment = seg, !.buffer = PySuffix(f.buffer, idx + 1)]
        IN IF f.current_line_len + Len(seg) <= WRAP_COLS
           THEN [g EXCEPT !.out = Write(f.out, seg),
                          !.current_line_len = f.current_line_len + Len(seg),
                          !.pc = "nlend"]
           ELSE [g EXCEPT !.remaining = seg, !.pc = "nlwrap"]
    ELSE IF Contains(f.buffer, SP) /\ Len(f.buffer) > FLUSH_MIN THEN
        [f EXCEPT !.segment = f.buffer, !.buffer = <<>>, !.pc = "spwrap"]
    ELSE [f EXCEPT !.pc = "recv"]

\* lines 782-787 and 834-838, 863-865: top of `while buffer:`
DsLoop(f) ==
    IF f.buffer = <<>> THEN [f EXCEPT !.pc = "recv"]
    ELSE IF Contains(f.buffer, NL) THEN
        LET idx == PyIndex(f.buffer, NL)
            seg == PyPrefix(f.buffer, idx)
            g == [f EXCEPT !.segment = seg, !.buffer = PySuffix(f.buffer, idx + 1)]
        IN IF f.current_line_len + Len(seg) <= WRAP_COLS
           THEN [g EXCEPT !.out = Write(f.out, seg),
                          !.current_line_len = f.current_line_len + Len(seg),
                          !.pc = "nlend"]
           ELSE [g EXCEPT !.remaining = seg, !.pc = "nlwrap"]
    ELSE IF Contains(f.buffer, SP) /\ Len(f.buffer) > FLUSH_MIN THEN
        LET idx == PyRFind(f.buffer, SP)
        IN [f EXCEPT !.segment = PyPrefix(f.buffer, idx),
                     !.buffer = PySuffix(f.buffer, idx + 1),
                     !.pc = "spwrap"]
    ELSE [f EXCEPT !.pc = "recv"]

\* lines 796-819: one iteration of `while remaining:`
DsNlWrap(f, pag, pl) ==
    IF f.remaining = <<>> THEN [f EXCEPT !.pc = "nlend"]
    ELSE LET space_left == WRAP_COLS - f.current_line_len
         IN IF Len(f.remaining) <= space_left
            THEN [f EXCEPT !.out = Write(f.out, f.remaining),
                           !.current_line_len = f.current_line_len + Len(f.remaining),
                           !.pc = "nlend"]
            ELSE LET cut_point == CutPoint(f.remaining, space_left)
                     g == [f EXCEPT
                             !.out = Writeln(Write(f.out, PyPrefix(f.remaining, cut_point)), <<>>),
                             !.line_count = f.line_count + 1,
                             !.remaining = LStrip(PySuffix(f.remaining, cut_point)),
                             !.current_line_len = 0]
                 IN DsPaginate(g, pag, pl, "pause_nlwrap", "nlwrap")

\* lines 821-832: the line break of the source text
DsNlEnd(f, pag, pl) ==
    LET g == [f EXCEPT !.out = Writeln(f.out, <<>>),
                       !.line_count = f.line_count + 1,
                       !.current_line_len = 0]
    IN DsPaginate(g, pag, pl, "pause_nl", "loop")

\* lines 841-862: one iteration of `while segment:`
DsSpWrap(f, pag, pl) ==
    IF f.segment = <<>> THEN [f EXCEPT !.pc = "loop"]
    ELSE LET space_left == WRAP_COLS - f.current_line_len
         IN IF Len(f.segment) <= space_left
            THEN [f EXCEPT !.out = Write(f.out, f.segment \o <<SP>>),
                           !.current_line_len = f.current_line_len + Len(f.segment) + 1,
                           !.pc = "loop"]
            ELSE LET cut_point == CutPoint(f.segment, space_left)
                     g == [f EXCEPT
                             !.out = Writeln(Write(f.out, PyPrefix(f.segment, cut_point)), <<>>),
                             !.line_count = f.line_count + 1,
                             !.segment = LStrip(PySuffix(f.segment, cut_point)),
                             !.current_line_len = 0]
                 IN DsPaginate(g, pag, pl, "pause_sp", "spwrap")

\* lines 868-884: one iteration of the final `while buffer:`, then the
\* closing writeln and the return
DsFlush(f) ==
    LET space_left == WRAP_COLS - f.current_line_len
    IN IF f.buffer = <<>>
       THEN [f EXCEPT !.out = Writeln(f.out, <<>>), !.pc = "done"]
       ELSE IF Len(f.buffer) <= space_left
       THEN [f EXCEPT !.out = Writeln(Write(f.out, f.buffer), <<>>), !.pc = "done"]
       ELSE LET cut_point == CutPoint(f.buffer, space_left)
            IN [f EXCEPT
                  !.out = Writeln(Write(f.out, PyPrefix(f.buffer, cut_point)), <<>>),
                  !.buffer = LStrip(PySuffix(f.buffer, cut_point)),
                  !.current_line_len = 0]

DsStep(f, pag, pl) ==
    CASE f.pc = "loop"   -> DsLoop(f)
      [] f.pc = "nlwrap" -> DsNlWrap(f, pag, pl)
      [] f.pc = "nlend"  -> DsNlEnd(f, pag, pl)
      [] f.pc = "spwrap" -> DsSpWrap(f, pag, pl)
      [] f.pc = "flush"  -> DsFlush(f)

RECURSIVE DsRun(_, _, _)
DsRun(f, pag, pl) ==
    IF f.pc \in DsBlocking THEN f ELSE DsRun(DsStep(f, pag, pl), pag, pl)

DsLocals ==
    [pc |-> pc, out |-> out, buffer |-> buffer, line_count |-> line_count,
     current_line_len |-> current_line_len, remaining |-> remaining,
     segment |-> segment]

DsStore(f) ==
    /\ pc' = f.pc
    /\ out' = f.out
    /\ buffer' = f.buffer
    /\ line_count' = f.line_count
    /\ current_line_len' = f.current_line_len
    /\ remaining' = f.remaining
    /\ segment' = f.segment

\* `for chunk in text_generator:` delivers the next n characters
DsChunk ==
    /\ fn = "display_streaming"
    /\ pc = "recv"
    /\ sent < Len(text)
    /\ \E n \in ChunkSizes(text) :
         LET chunk == SubSeq(text, sent + 1, Min(sent + n, Len(text)))
         IN /\ sent' = sent + Len(chunk)
            /\ full_text' = full_text \o chunk
            /\ DsStore(DsRun([DsLocals EXCEPT !.buffer = buffer \o chunk, !.pc = "loop"],
                             pagination, page_lines))
    /\ UNCHANGED <<fn, text, page_lines, pagination, key, waits, lines, ret>>
    /\ UNCHANGED offDisplay

\* The generator is exhausted: final flush and return full_text
DsExhausted ==
    /\ fn = "display_streaming"
    /\ pc = "recv"
    /\ sent = Len(text)
    /\ DsStore(DsRun([DsLocals EXCEPT !.pc = "flush"], pagination, page_lines))
    /\ ret' = full_text
    /\ UNCHANGED <<fn, text, sent, page_lines, pagination, key, waits, lines, full_text>>
    /\ UNCHANGED offDisplay

\* Where each pause of display_streaming resumes
DsResumePc(p) ==
    CASE p = "pause_nlwrap" -> "nlwrap"
      [] p = "pause_nl"     -> "loop"
      [] p = "pause_sp"     -> "spwrap"

\* wait_keypress returned k (a byte, or None after 300 s without one):
\* erase the pause text, reset line_count, go on
DsResume(k) ==
    /\ fn = "display_streaming"
    /\ pc \in {"pause_nlwrap", "pause_nl", "pause_sp"}
    /\ key' = k
    /\ waits' = waits + 1
    /\ DsStore(DsRun([DsLocals EXCEPT !.out = EraseMarker(out), !.line_count = 0,
                                      !.pc = DsResumePc(pc)],
                     pagination, page_lines))
    /\ UNCHANGED <<fn, text, sent, page_lines, pagination, lines, full_text, ret>>
    /\ UNCHANGED offDisplay

DsKeyPress == \E k \in KeyBytes : DsResume(k)

DsKeyTimeout == DsResume(NoByte)

\* ------------------------------------------------------------------------
\* display_wrapped.  Blocking points: before the call ("call"), inside
\* wait_keypress ("pause"), after the return ("done").
\* ------------------------------------------------------------------------
DwBlocking == {"call", "pause", "done"}

\* lines 751-762: one iteration of `for line in lines:`
DwStep(f, pag, pl) ==
    IF f.lines = <<>> THEN [f EXCEPT !.pc = "done"]
    ELSE LET g == [f EXCEPT !.out = Writeln(f.out, Head(f.lines)),
                            !.lines = Tail(f.lines),
                            !.line_count = f.line_count + 1]
         IN IF pag /\ g.line_count >= pl
            THEN [g EXCEPT !.out = PauseMarker(g.out), !.pc = "pause"]
            ELSE g

RECURSIVE DwRun(_, _, _)
DwRun(f, pag, pl) ==
    IF f.pc \in DwBlocking THEN f ELSE DwRun(DwStep(f, pag, pl), pag, pl)

DwStore(f) ==
    /\ pc' = f.pc
    /\ out' = f.out
    /\ lines' = f.lines
    /\ line_count' = f.line_count

\* lines 748-749, then the loop up to the first pause or the return
DwCall ==
    /\ fn = "display_wrapped"
    /\ pc = "call"
    /\ DwStore(DwRun([pc |-> "for", out |-> out, lines |-> wrap_40(text, WRAP_COLS),
                      line_count |-> 0], pagination, page_lines))
    /\ UNCHANGED <<fn, text, sent, page_lines, pagination, key, waits, full_text,
                   buffer, current_line_len, remaining, segment, ret>>
    /\ UNCHANGED offDisplay

\* wait_keypress returned k: erase the pause text, reset line_count, go on
DwResume(k) ==
    /\ fn = "display_wrapped"
    /\ pc = "pause"
    /\ key' = k
    /\ waits' = waits + 1
    /\ DwStore(DwRun([pc |-> "for", out |-> EraseMarker(out), lines |-> lines,
                      line_count |-> 0], pagination, page_lines))
    /\ UNCHANGED <<fn, text, sent, page_lines, pagination, full_text, buffer,
                   current_line_len, remaining, segment, ret>>
    /\ UNCHANGED offDisplay

DwKeyPress == \E k \in KeyBytes : DwResume(k)

DwKeyTimeout == DwResume(NoByte)

\* ------------------------------------------------------------------------
\* SerialMinitel.read_line on an open port.  Characters are code points.
\* Blocking points: inside read_byte(timeout=0.1) ("poll"), inside
\* read_byte(timeout=0.05) after a terminator ("peek"), after the return.
\* ------------------------------------------------------------------------
\* Bytes the terminal can send: CR, LF, the two erase bytes, printable
\* ASCII, an extended character, a control byte that is none of these
RlBytes == {13, 10, 8, 127, 65, 66, 67, 233, 27}

\* The keys used where successive calls are followed: CR, LF, a letter
RlLineKeys == {13, 10, 65}

\* Timeouts, in polls of 0.1 s
RlTimeouts == {1, 3}

\* chr(byte) and bytes([byte]).decode("latin-1")
Chr(byte) == byte
DecodeLatin1(byte) == byte

\* sanitize_latin1(text).encode("latin-1", errors="replace"), per character
EncodeLatin1(s) == [i \in 1..Len(s) |-> IF s[i] <= 255 THEN s[i] ELSE 63]

\* SerialMinitel.write(text) on an open port
SerialWrite(tx, s) == tx \o EncodeLatin1(s)

\* RlOnErase without the `if buffer:` test
RlOnErase_Unchecked(f, echo) ==
    [f EXCEPT !.buffer = SubSeq(f.buffer, 1, Len(f.buffer) - 1),
              !.tx = IF echo THEN SerialWrite(f.tx, <<8, 32, 8>>) ELSE f.tx]

\* lines 437-443: the byte is 0x08 or 0x7f
RlOnErase(f, echo) ==
    IF f.buffer # <<>>
    THEN [f EXCEPT !.buffer = SubSeq(f.buffer, 1, Len(f.buffer) - 1),
                   !.tx = IF echo THEN SerialWrite(f.tx, <<8, 32, 8>>) ELSE f.tx]
    ELSE f

\* RlOnChar without the echo
RlOnChar_NoEcho(f, char, echo) ==
    [f EXCEPT !.buffer = Append(f.buffer, char)]

\* lines 446-450 and 451-459: a character is appended and echoed
RlOnChar(f, char, echo) ==
    [f EXCEPT !.buffer = Append(f.buffer, char),
              !.tx = IF echo THEN SerialWrite(f.tx, <<char>>) ELSE f.tx]

\* RlOnByte with 0x7F taken as a printable character
RlOnByte_DelIsChar(f, byte, echo) ==
    IF byte \in {13, 10} THEN [f EXCEPT !.pc = "peek"]
    ELSE IF byte = 8 THEN RlOnErase(f, echo)
    ELSE IF 32 <= byte /\ byte <= 127 THEN RlOnChar(f, Chr(byte), echo)
    ELSE IF byte >= 128 THEN RlOnChar(f, DecodeLatin1(byte), echo)
    ELSE f

\* lines 425-459: what one byte does
RlOnByte(f, byte, echo) ==
    IF byte \in {13, 10} THEN [f EXCEPT !.pc = "peek"]
    ELSE IF byte \in {8, 127} THEN RlOnErase(f, echo)
    ELSE IF 32 <= byte /\ byte < 127 THEN RlOnChar(f, Chr(byte), echo)
    ELSE IF byte >= 128 THEN RlOnChar(f, DecodeLatin1(byte), echo)
    ELSE f

\* The terminal sends a byte: it waits in the serial port until it is read
RlSend(keys) ==
    /\ Len(rl_sent) < MaxRead
    /\ Len(rl_sent) - rl_nread < MaxWait
    /\ \E byte \in keys : rl_sent' = Append(rl_sent, byte)
    /\ UNCHANGED <<rl_pc, rl_echo, rl_timeout, rl_elapsed, rl_buffer, rl_byte, rl_nread,
                   rl_tx, rl_ret, rl_start, rl_peeks, rl_lines>>
    /\ UNCHANGED offReadLine

\* read_byte(timeout=0.1) returned the waiting byte at once
RlRecv ==
    /\ rl_pc = "poll"
    /\ rl_elapsed < rl_timeout
    /\ rl_nread < Len(rl_sent)
    /\ LET byte == rl_sent[rl_nread + 1]
           f == RlOnByte([pc |-> rl_pc, buffer |-> rl_buffer, tx |-> rl_tx],
                         byte, rl_echo)
       IN /\ rl_byte' = byte
          /\ rl_nread' = rl_nread + 1
          /\ rl_pc' = f.pc
          /\ rl_buffer' = f.buffer
          /\ rl_tx' = f.tx
    /\ UNCHANGED <<rl_echo, rl_timeout, rl_elapsed, rl_ret, rl_sent, rl_start, rl_peeks,
                   rl_lines>>
    /\ UNCHANGED offReadLine

\* read_byte(timeout=0.1) returned None, no byte was waiting: `continue`
RlNoByte ==
    /\ rl_pc = "poll"
    /\ rl_elapsed < rl_timeout
    /\ rl_nread = Len(rl_sent)
    /\ rl_byte' = NoByte
    /\ rl_elapsed' = rl_elapsed + 1
    /\ UNCHANGED <<rl_pc, rl_echo, rl_timeout, rl_buffer, rl_nread, rl_tx, rl_ret,
                   rl_sent, rl_start, rl_peeks, rl_lines>>
    /\ UNCHANGED offReadLine

\* RlPeekTaken when the byte read after a terminator is left in the port
RlPeekTaken_PutBack(next_byte) == 0

\* line 428: how many bytes read_byte(timeout=0.05) takes from the port
RlPeekTaken(next_byte) == IF next_byte = NoByte THEN 0 ELSE 1

\* RlPeekLine when a byte that is no terminator is kept for the line
RlPeekLine_Kept(buf, next_byte) ==
    IF next_byte \in {NoByte, 13, 10} THEN buf ELSE Append(buf, next_byte)

\* lines 428-434: next_byte is assigned and never used, the buffer is returned
RlPeekLine(buf, next_byte) == buf

\* lines 428-434: the byte after a terminator (or None when none came in the
\* window) is read and dropped, the line break is echoed, the buffer is
\* returned
RlPeek ==
    /\ rl_pc = "peek"
    /\ LET next_byte == IF rl_nread < Len(rl_sent) THEN rl_sent[rl_nread + 1] ELSE NoByte
       IN /\ rl_nread' = rl_nread + RlPeekTaken(next_byte)
          /\ rl_peeks' = IF next_byte = NoByte THEN rl_peeks
                         ELSE rl_peeks \cup {rl_nread + 1}
          /\ rl_ret' = RlPeekLine(rl_buffer, next_byte)
          /\ rl_lines' = Append(rl_lines, [ret |-> RlPeekLine(rl_buffer, next_byte),
                                            by |-> "terminator"])
    /\ rl_tx' = IF rl_echo THEN SerialWrite(rl_tx, <<13, 10>>) ELSE rl_tx
    /\ rl_pc' = "returned"
    /\ UNCHANGED <<rl_echo, rl_timeout, rl_elapsed, rl_buffer, rl_byte, rl_sent, rl_start>>
    /\ UNCHANGED offReadLine

\* RlAtDeadline when the buffer is returned as it is
RlAtDeadline_Joined(buf) == buf

\* line 461: the value returned when the deadline has passed
RlAtDeadline(buf) == IF buf # <<>> THEN buf ELSE NoLine

\* line 420 is false, line 461
RlDeadline ==
    /\ rl_pc = "poll"
    /\ rl_elapsed >= rl_timeout
    /\ rl_ret' = RlAtDeadline(rl_buffer)
    /\ rl_lines' = Append(rl_lines, [ret |-> RlAtDeadline(rl_buffer), by |-> "deadline"])
    /\ rl_pc' = "returned"
    /\ UNCHANGED <<rl_echo, rl_timeout, rl_elapsed, rl_buffer, rl_byte, rl_nread, rl_tx,
                   rl_sent, rl_start, rl_peeks>>
    /\ UNCHANGED offReadLine

\* lines 414-418: the caller calls read_line again, with the same arguments
RlCall ==
    /\ rl_pc = "returned"
    /\ Len(rl_lines) < MaxCalls
    /\ rl_pc' = "poll"
    /\ rl_elapsed' = 0
    /\ rl_buffer' = <<>>
    /\ rl_tx' = <<>>
    /\ rl_start' = rl_nread
    /\ UNCHANGED <<rl_echo, rl_timeout, rl_byte, rl_nread, rl_ret, rl_sent, rl_peeks,
                   rl_lines>>
    /\ UNCHANGED offReadLine

\* No display call is running
DisplayIdle ==
    /\ fn = "none"
    /\ text = <<>>
    /\ sent = 0
    /\ page_lines = 1
    /\ pagination = FALSE
    /\ out = <<>>
    /\ key = NoByte
    /\ waits = 0
    /\ pc = "idle"
    /\ lines = <<>>
    /\ full_text = <<>>
    /\ buffer = <<>>
    /\ line_count = 0
    /\ current_line_len = 0
    /\ remaining = <<>>
    /\ segment = <<>>
    /\ ret = None

\* lines 414-418: read_line(timeout, echo) has been called on an open port
InitReadLine ==
    /\ rl_pc = "poll"
    /\ rl_echo \in BOOLEAN
    /\ rl_timeout \in RlTimeouts
    /\ rl_elapsed = 0
    /\ rl_buffer = <<>>
    /\ rl_byte = NoByte
    /\ rl_nread = 0
    /\ rl_tx = <<>>
    /\ rl_ret = NoLine
    /\ rl_sent = <<>>
    /\ rl_start = 0
    /\ rl_peeks = {}
    /\ rl_lines = <<>>
    /\ DisplayIdle
    /\ ProbeIdle
    /\ HistoryIdle
    /\ ShellIdle
    /\ TransportIdle
    /\ ClientIdle
    /\ MainIdle

\* One read_line call, the terminal sending any bytes of RlBytes
NextReadLine == RlSend(RlBytes) \/ RlRecv \/ RlNoByte \/ RlPeek \/ RlDeadline

SpecReadLine == InitReadLine /\ [][NextReadLine]_vars

\* Successive read_line calls, the terminal sending line ends and one letter
NextReadLines == RlSend(RlLineKeys) \/ RlRecv \/ RlNoByte \/ RlPeek \/ RlDeadline \/ RlCall

SpecReadLines == InitReadLine /\ [][NextReadLines]_vars

\* ------------------------------------------------------------------------
\* read_line on either transport, with the time it takes.  SimulatedMinitel
\* .read_line is inside input() ("input") until it returns; standard input
\* holds the bytes of rl_sent from rl_nread on.
\* ------------------------------------------------------------------------
\* The place of the first line feed in the bytes that wait, 0 when none
FirstNewline(bytes) ==
    IF \E k \in 1..Len(bytes) : bytes[k] = 10
    THEN CHOOSE k \in 1..Len(bytes) : bytes[k] = 10 /\ \A j \in 1..(k - 1) : bytes[j] # 10
    ELSE 0

\* A key is typed on standard input
SimType ==
    /\ rl_pc = "input"
    /\ Len(rl_sent) < MaxRead
    /\ \E byte \in RlLineKeys : rl_sent' = Append(rl_sent, byte)
    /\ UNCHANGED <<rl_pc, rl_echo, rl_timeout, rl_elapsed, rl_buffer, rl_byte, rl_nread,
                   rl_tx, rl_ret, rl_start, rl_peeks, rl_lines>>
    /\ UNCHANGED offReadLine

\* lines 528-530: 0.1 s passes inside input(), which takes no timeout
SimWait ==
    /\ rl_pc = "input"
    /\ rl_elapsed < rl_timeout + MaxOver
    /\ rl_elapsed' = rl_elapsed + 1
    /\ UNCHANGED <<rl_pc, rl_echo, rl_timeout, rl_buffer, rl_byte, rl_nread, rl_tx,
                   rl_ret, rl_sent, rl_start, rl_peeks, rl_lines>>
    /\ UNCHANGED offReadLine

\* The bytes standard input holds
SimPending == SubSeq(rl_sent, rl_nread + 1, Len(rl_sent))

\* read_line returns v, having taken n bytes
SimReturn(v, n, why) ==
    /\ rl_pc = "input"
    /\ rl_ret' = v
    /\ rl_nread' = rl_nread + n
    /\ rl_lines' = Append(rl_lines, [ret |-> v, by |-> why])
    /\ rl_pc' = "returned"
    /\ UNCHANGED <<rl_echo, rl_timeout, rl_elapsed, rl_buffer, rl_byte, rl_tx, rl_sent,
                   rl_start, rl_peeks>>
    /\ UNCHANGED offReadLine

\* lines 529-530: a whole line has been typed, input() returns it without
\* its line feed
SimInput ==
    LET k == FirstNewline(SimPending)
    IN /\ k > 0
       /\ SimReturn(SubSeq(SimPending, 1, k - 1), k, "terminator")

\* lines 531-532: standard input is closed with nothing typed, input()
\* raises EOFError
SimEof ==
    /\ SimPending = <<>>
    /\ SimReturn(NoLine, 0, "eof")

\* lines 533-534: the operator interrupts input()
SimInterrupt ==
    /\ FirstNewline(SimPending) = 0
    /\ SimReturn(NoLine, 0, "interrupt")

\* read_line(timeout, echo) has been called on an open SerialMinitel, or on
\* a SimulatedMinitel
InitLineWait ==
    /\ rl_pc \in {"poll", "input"}
    /\ rl_echo \in BOOLEAN
    /\ rl_timeout \in RlTimeouts
    /\ rl_elapsed = 0
    /\ rl_buffer = <<>>
    /\ rl_byte = NoByte
    /\ rl_nread = 0
    /\ rl_tx = <<>>
    /\ rl_ret = NoLine
    /\ rl_sent = <<>>
    /\ rl_start = 0
    /\ rl_peeks = {}
    /\ rl_lines = <<>>
    /\ DisplayIdle
    /\ ProbeIdle
    /\ HistoryIdle
    /\ ShellIdle
    /\ TransportIdle
    /\ ClientIdle
    /\ MainIdle

\* The terminal sends a byte to the serial port during the call
RlSendLineKey == rl_pc = "poll" /\ RlSend(RlLineKeys)

\* What the terminal and the operator may or may not do
LineWaitInputs == RlSendLineKey \/ SimType \/ SimEof \/ SimInterrupt

\* What the call does, and the passing of time
LineWaitSteps == RlRecv \/ RlNoByte \/ RlPeek \/ RlDeadline \/ SimWait \/ SimInput

NextLineWait == LineWaitInputs \/ LineWaitSteps

SpecLineWait == InitLineWait /\ [][NextLineWait]_vars

\* The call runs and time passes; nothing obliges a byte to arrive
SpecLineWaitFair == SpecLineWait /\ WF_vars(LineWaitSteps)

\* No read_line call is running
ReadLineIdle ==
    /\ rl_pc = "idle"
    /\ rl_echo = FALSE
    /\ rl_timeout = 0
    /\ rl_elapsed = 0
    /\ rl_buffer = <<>>
    /\ rl_byte = NoByte
    /\ rl_nread = 0
    /\ rl_tx = <<>>
    /\ rl_ret = NoLine
    /\ rl_sent = <<>>
    /\ rl_start = 0
    /\ rl_peeks = {}
    /\ rl_lines = <<>>

\* ------------------------------------------------------------------------
\* One display call: either entry point, on any text of Texts
\* ------------------------------------------------------------------------
InitDisplay ==
    /\ fn \in {"display_streaming", "display_wrapped"}
    /\ text \in Texts
    /\ sent = 0
    /\ page_lines \in PageHeights
    /\ pagination \in BOOLEAN
    /\ pagination \/ page_lines = 1      \* page_lines is not read when pagination is off
    /\ out = <<>>
    /\ key = NoByte
    /\ waits = 0
    /\ pc = IF fn = "display_streaming" THEN "recv" ELSE "call"
    /\ lines = <<>>
    /\ full_text = <<>>
    /\ buffer = <<>>
    /\ line_count = 0
    /\ current_line_len = 0
    /\ remaining = <<>>
    /\ segment = <<>>
    /\ ret = None
    /\ ReadLineIdle
    /\ ProbeIdle
    /\ HistoryIdle
    /\ ShellIdle
    /\ TransportIdle
    /\ ClientIdle
    /\ MainIdle

NextDisplay ==
    \/ DsChunk
    \/ DsExhausted
    \/ DsKeyPress
    \/ DsKeyTimeout
    \/ DwCall
    \/ DwKeyPress
    \/ DwKeyTimeout

SpecDisplay == InitDisplay /\ [][NextDisplay]_vars

\* ------------------------------------------------------------------------
\* display_streaming one pass at a time: every iteration of the outer loop
\* and of the three wrapping loops is a step of its own, so that a loop
\* that does not end is a behaviour that never reaches "done".
\* ------------------------------------------------------------------------
\* Texts that bring the column to 30, 40 and 41 and then meet each of the
\* three wrapping loops with a word of 10 characters, an unbroken token of
\* 45 or two short words
StPrefixLens == {30, 39, 40}
StMiddles == {Rep("b", 10), Rep("b", 45), Rep("b", 5) \o <<SP>> \o Rep("c", 5)}
StEnds == {<<>>, <<NL>>, <<SP, "d">>}
StTexts == {Rep("a", n) \o <<SP>> \o m \o e :
               n \in StPrefixLens, m \in StMiddles, e \in StEnds}

InitSteps ==
    /\ fn = "display_streaming"
    /\ text \in StTexts
    /\ sent = 0
    /\ page_lines \in PageHeights
    /\ pagination \in BOOLEAN
    /\ pagination \/ page_lines = 1
    /\ out = <<>>
    /\ key = NoByte
    /\ waits = 0
    /\ pc = "recv"
    /\ lines = <<>>
    /\ full_text = <<>>
    /\ buffer = <<>>
    /\ line_count = 0
    /\ current_line_len = 0
    /\ remaining = <<>>
    /\ segment = <<>>
    /\ ret = None
    /\ ReadLineIdle
    /\ ProbeIdle
    /\ HistoryIdle
    /\ ShellIdle
    /\ TransportIdle
    /\ ClientIdle
    /\ MainIdle

\* lines 777-780: the generator yields the next n characters
StChunk ==
    /\ pc = "recv"
    /\ sent < Len(text)
    /\ \E n \in ChunkLens :
         LET chunk == SubSeq(text, sent + 1, Min(sent + n, Len(text)))
         IN /\ sent' = sent + Len(chunk)
            /\ full_text' = full_text \o chunk
            /\ buffer' = buffer \o chunk
    /\ pc' = "loop"
    /\ UNCHANGED <<fn, text, page_lines, pagination, out, key, waits, lines,
                   line_count, current_line_len, remaining, segment, ret>>
    /\ UNCHANGED offDisplay

\* line 777: the generator is exhausted, the final flush begins
StExhausted ==
    /\ pc = "recv"
    /\ sent = Len(text)
    /\ pc' = "flush"
    /\ UNCHANGED <<fn, text, sent, page_lines, pagination, out, key, waits, lines,
                   full_text, buffer, line_count, current_line_len, remaining,
                   segment, ret>>
    /\ UNCHANGED offDisplay

\* One pass through the code at pc; the pass that reaches "done" returns
\* full_text
StStep ==
    /\ fn = "display_streaming"
    /\ pc \notin DsBlocking
    /\ LET f == DsStep(DsLocals, pagination, page_lines)
       IN /\ DsStore(f)
          /\ ret' = IF f.pc = "done" THEN full_text ELSE ret
    /\ UNCHANGED <<fn, text, sent, page_lines, pagination, key, waits, lines,
                   full_text>>
    /\ UNCHANGED offDisplay

\* wait_keypress returned k: erase the pause text, reset line_count and go
\* back into the loop that paused
StResume(k) ==
    /\ pc \in {"pause_nlwrap", "pause_nl", "pause_sp"}
    /\ key' = k
    /\ waits' = waits + 1
    /\ DsStore([DsLocals EXCEPT !.out = EraseMarker(out), !.line_count = 0,
                                !.pc = DsResumePc(pc)])
    /\ UNCHANGED <<fn, text, sent, page_lines, pagination, lines, full_text, ret>>
    /\ UNCHANGED offDisplay

StKeyPress == \E k \in KeyBytes : StResume(k)

StKeyTimeout == StResume(NoByte)

NextSteps ==
    \/ StChunk
    \/ StExhausted
    \/ StStep
    \/ StKeyPress
    \/ StKeyTimeout

SpecStreamSteps == InitSteps /\ [][NextSteps]_vars

\* The chunk sequence is finite and is delivered, each key-press wait
\* returns, and the formatter runs
SpecStreamStepsFair == SpecStreamSteps /\ WF_vars(NextSteps)

\* ------------------------------------------------------------------------
\* Reading the terminal
\* ------------------------------------------------------------------------
Streaming == fn = "display_streaming"
Wrapped == fn = "display_wrapped"
DsPauses == {"pause_nlwrap", "pause_nl", "pause_sp"}
Paused == (Streaming /\ pc \in DsPauses) \/ (Wrapped /\ pc = "pause")

\* Positions where the cursor goes back to column 0, with both ends
ColumnResets(o) == {0, Len(o) + 1} \cup {i \in 1..Len(o) : o[i] \in {CR, NL}}

\* The next element of S after a
NextIn(S, a) == CHOOSE b \in S : b > a /\ \A c \in S : c > a => b <= c

\* Columns written between the reset at a and the next one
ColumnsAfter(o, a) ==
    LET b == NextIn(ColumnResets(o), a)
    IN (b - a - 1) + (MARKER_LEN - 1) * Cardinality({k \in (a+1)..(b-1) : o[k] = Marker})

\* The largest number of columns written since a line break, over the
\* whole output so far
WidestLine(o) ==
    LET w == {ColumnsAfter(o, a) : a \in ColumnResets(o) \ {Len(o) + 1}}
    IN CHOOSE m \in w : \A n \in w : n <= m

NumMarkers(o) == Cardinality({i \in 1..Len(o) : o[i] = Marker})

\* Line breaks of the text (a pause writes one of its own before the marker)
\* between position a and position b
TextBreaks(o, a, b) ==
    Cardinality({i \in (a+1)..(b-1) : o[i] = NL}) - (IF b <= Len(o) THEN 1 ELSE 0)

\* Positions of the pause markers, with both ends
MarkerBounds(o) == {0, Len(o) + 1} \cup {i \in 1..Len(o) : o[i] = Marker}

\* The largest number of text line breaks before, between and after pauses
MostBreaksPerPage(o) ==
    LET n == {TextBreaks(o, a, NextIn(MarkerBounds(o), a)) :
                 a \in MarkerBounds(o) \ {Len(o) + 1}}
    IN CHOOSE m \in n : \A k \in n : k <= m

\* What separates word tokens on the terminal and in a text
IsSep(c) == IsSpace(c) \/ c = Marker

\* The k-th smallest element of a set of numbers
Nth(S, k) == CHOOSE x \in S : Cardinality({y \in S : y <= x}) = k

\* The word tokens of s, in order
Tokens(s) ==
    LET first == {i \in 1..Len(s) : ~IsSep(s[i]) /\ (i = 1 \/ IsSep(s[i-1]))}
        last == {i \in 1..Len(s) : ~IsSep(s[i]) /\ (i = Len(s) \/ IsSep(s[i+1]))}
    IN [k \in 1..Cardinality(first) |-> SubSeq(s, Nth(first, k), Nth(last, k))]

\* The output with every pause (line break, marker, erasure) taken out
WithoutPauses(o) ==
    LET inPause(i) == \E m \in 1..Len(o) :
                         /\ o[m] = Marker
                         /\ m - 2 <= i
                         /\ i <= m + ERASE_BLANKS + 2
        keep == {i \in 1..Len(o) : ~inPause(i)}
    IN [k \in 1..Cardinality(keep) |-> o[Nth(keep, k)]]

\* What display_wrapped writes for t when it never pauses
WrappedOutput(t) ==
    DwRun([pc |-> "for", out |-> <<>>, lines |-> wrap_40(t, WRAP_COLS),
           line_count |-> 0], FALSE, 1).out

\* ------------------------------------------------------------------------
\* Claims about the formatter
\* ------------------------------------------------------------------------

\* C1: in display_streaming, at every point of the call, no more than
\* WRAP_COLS characters have been written since the last line break
\* (the blank written after a flushed segment counts).
C1_StreamingLinesFit == Streaming => WidestLine(out) <= WRAP_COLS

\* C2: every line display_wrapped passes to writeln is at most 40 long,
\* and a blank line of the source text gives exactly one blank line: the
\* lines of the text are those of what precedes the blank line, one empty
\* line, then those of what follows it.
C2_WrappedLinesFit ==
    (Wrapped /\ pc # "call") =>
        /\ WidestLine(out) <= WRAP_COLS
        /\ \A i \in 1..Len(lines) : Len(lines[i]) <= WRAP_COLS
        /\ LET paragraphs == SplitNL(text)
               n == Len(paragraphs)
           IN \A k \in 1..n :
                 IsBlank(paragraphs[k]) =>
                    WithoutPauses(out) \o Join([i \in 1..Len(lines) |-> lines[i] \o <<CR, NL>>])
                      = Join([i \in 1..(k-1) |->
                                WrappedOutput(paragraphs[i])])
                        \o <<CR, NL>>
                        \o Join([i \in 1..(n-k) |->
                                WrappedOutput(paragraphs[k+i])])

C2_Witness ==
    /\ Wrapped
    /\ pc = "done"
    /\ waits > 0
    /\ \E k \in 2..(Len(SplitNL(text)) - 1) : IsBlank(SplitNL(text)[k])
    /\ \E a \in ColumnResets(out) \ {Len(out) + 1} : ColumnsAfter(out, a) = WRAP_COLS

\* C3: display_streaming returns the text it was given, and the word
\* tokens it wrote are those display_wrapped writes for that text, in the
\* same order.
C3_SameTokensAsWrapped ==
    (Streaming /\ pc = "done") =>
        /\ ret = text
        /\ Tokens(out) = Tokens(WrappedOutput(text))

\* C4: display_streaming leaves every word of at most WRAP_COLS characters
\* in one piece on the terminal.
C4_ShortWordsUnbroken ==
    (Streaming /\ pc = "done") =>
        \A k \in 1..Len(Tokens(text)) :
            Len(Tokens(text)[k]) <= WRAP_COLS =>
                \E j \in 1..Len(Tokens(out)) : Tokens(out)[j] = Tokens(text)[k]

\* C5: with pagination on, display_wrapped issues floor((N-1)/P) pause
\* markers for N emitted lines and page height P; line_count is 0 when
\* the call starts and after every pause.
C5_PauseCount ==
    /\ (Wrapped /\ pc = "call") => line_count = 0
    /\ (Wrapped /\ pc = "done" /\ pagination /\ Len(wrap_40(text, WRAP_COLS)) > 0) =>
          NumMarkers(out) = (Len(wrap_40(text, WRAP_COLS)) - 1) \div page_lines

\* C6: with pagination on, display_streaming never emits more than
\* page_lines text line breaks before the first pause marker, between two
\* pause markers, or after the last one.
C6_BreaksPerPage ==
    (Streaming /\ pagination) => MostBreaksPerPage(out) <= page_lines

\* C7 as stated: once the pause marker is written, nothing more is
\* written until a key-press byte has been read.
C7_ResumeOnlyOnKey ==
    [][(Paused /\ out' # out) => key' \in KeyBytes]_vars

\* C7 amended: once the pause marker is written, nothing more is written
\* until wait_keypress has returned (with a byte, or with none when its
\* timeout elapsed); what is written first is then the erasure of the marker.
C7_ResumeOnlyAfterWait ==
    LET marks == {i \in 1..Len(out) : out[i] = Marker}
    IN /\ Cardinality(marks) = waits + (IF Paused THEN 1 ELSE 0)
       /\ Paused => out[Len(out)] = Marker
       /\ \A m \in marks :
             m < Len(out) =>
                SubSeq(out, m + 1, m + ERASE_BLANKS + 2) = EraseMarker(<<>>)

C7_Witness ==
    /\ ~Paused
    /\ waits > 0
    /\ key = NoByte
    /\ \E i \in 1..Len(out) : out[i] = Marker /\ Len(out) > i + ERASE_BLANKS + 2

\* C8: the 45-character token is written as a 40-character line and a
\* 5-character line, nothing added or removed, by both entry points and
\* for every chunking.
C8_LongTokenSplit ==
    (pc = "done" /\ text = LongToken) =>
        WithoutPauses(out) = Rep("a", WRAP_COLS) \o <<CR, NL>> \o Rep("a", 5) \o <<CR, NL>>

C8_Witness ==
    /\ Streaming
    /\ pc = "done"
    /\ text = LongToken
    /\ Len(out) > Len(text)

\* C26: each time display_streaming waits for the next chunk, its buffer
\* holds no line break and holds a blank only if it is at most 10
\* characters long.
C26_NothingFlushableWaits ==
    (Streaming /\ pc = "recv") =>
        /\ ~Contains(buffer, NL)
        /\ ~Contains(buffer, SP) \/ Len(buffer) <= 10

\* The formatter has written something and waits with a short buffer that
\* holds a blank
C26_Witness ==
    /\ Streaming
    /\ pc = "recv"
    /\ out # <<>>
    /\ Contains(buffer, SP)
    /\ sent < Len(text)

\* The characters of a text that are neither blanks nor line ends nor the
\* pause text
LettersOf(s) == SelectSeq(s, LAMBDA c : c \notin {SP, NL, CR, Marker})

\* A text up to and including its last blank or line break
UpToLastBoundary(s) ==
    LET ends == {i \in 1..Len(s) : s[i] \in {SP, NL}}
    IN IF ends = {} THEN <<>>
       ELSE SubSeq(s, 1, CHOOSE i \in ends : \A j \in ends : j <= i)

\* C27: until the generator is exhausted, the letters written are letters
\* received before a blank or a line break: they are the first letters of
\* the text received, and none of them comes after its last blank or line
\* break.
C27_NoPartialWord ==
    (Streaming /\ pc # "done") =>
        LET written == LettersOf(out)
            whole == LettersOf(UpToLastBoundary(full_text))
        IN /\ Len(written) <= Len(whole)
           /\ written = SubSeq(whole, 1, Len(written))

\* Something was written and a word longer than the threshold waits whole
C27_Witness ==
    /\ Streaming
    /\ pc = "recv"
    /\ LettersOf(out) # <<>>
    /\ Len(buffer) > 10
    /\ ~Contains(buffer, SP)
    /\ buffer = SubSeq(full_text, Len(UpToLastBoundary(full_text)) + 1, Len(full_text))

\* The three wrapping loops, and what each of them still has to write
StLoops == {"nlwrap", "spwrap", "flush"}
StWorkLeft(p, rem, seg, buf) ==
    CASE p \in {"nlwrap", "pause_nlwrap"} -> Len(rem)
      [] p \in {"spwrap", "pause_sp"}     -> Len(seg)
      [] OTHER                            -> Len(buf)

\* A pass of a wrapping loop that stays in the loop (or pauses in it)
StIteration ==
    /\ pc \in StLoops
    /\ pc' \in {pc, "pause_nlwrap", "pause_sp"}

\* C28: display_streaming returns for every finite chunk sequence when the
\* key-press waits return, and every iteration of a wrapping loop that
\* does not leave the loop either shortens what the loop has left to write
\* or leaves it as long and brings the column back to 0 from a positive
\* column, whatever the room left on the line.
C28_StreamingTerminates ==
    /\ [][StIteration =>
            LET before == StWorkLeft(pc, remaining, segment, buffer)
                after == StWorkLeft(pc', remaining', segment', buffer')
            IN \/ after < before
               \/ after = before /\ current_line_len' = 0 /\ current_line_len > 0]_vars
    /\ <>(pc = "done")

\* The word-boundary loop is about to iterate with less than no room left
\* on the line, and the line-break loop and the final flush with none
C28_Witness ==
    /\ pc = "spwrap"
    /\ segment # <<>>
    /\ WRAP_COLS - current_line_len < 0

C28_WitnessLineBreak ==
    /\ pc = "nlwrap"
    /\ remaining # <<>>
    /\ WRAP_COLS - current_line_len <= 0

C28_WitnessFlush ==
    /\ pc = "flush"
    /\ buffer # <<>>
    /\ WRAP_COLS - current_line_len <= 0

\* ------------------------------------------------------------------------
\* Claims about read_line
\* ------------------------------------------------------------------------
\* What the terminal shows on the input line after receiving bytes: 0x08
\* moves the cursor back, a character is put at the cursor, CR ends the line
RECURSIVE Screen(_, _)
Screen(bytes, s) ==
    IF bytes = <<>> \/ Head(bytes) = 13 THEN s
    ELSE IF Head(bytes) = 8
         THEN Screen(Tail(bytes), [s EXCEPT !.cur = Max(s.cur - 1, 0)])
         ELSE Screen(Tail(bytes),
                     [cells |-> IF s.cur < Len(s.cells)
                                THEN [s.cells EXCEPT ![s.cur + 1] = Head(bytes)]
                                ELSE Append(s.cells, Head(bytes)),
                      cur |-> s.cur + 1])

Shown(bytes) == Screen(bytes, [cells |-> <<>>, cur |-> 0])

\* A control byte other than CR, LF, 0x08 and 0x7F
Ignored(byte) == 0 <= byte /\ byte < 32 /\ byte \notin {13, 10, 8}

\* read_line has just been handed a byte by read_byte(timeout=0.1)
RlHanded == rl_pc = "poll" /\ rl_nread' = rl_nread + 1

\* C9: an erase byte on an empty buffer changes neither the buffer nor the
\* terminal; on a non-empty buffer it removes the last character and, with
\* echo, writes exactly one back-space-back sequence.
C9_Erase ==
    [][(RlHanded /\ rl_byte' \in {8, 127}) =>
          IF rl_buffer = <<>>
          THEN rl_buffer' = <<>> /\ rl_tx' = rl_tx
          ELSE /\ rl_buffer' = SubSeq(rl_buffer, 1, Len(rl_buffer) - 1)
               /\ rl_echo => rl_tx' = rl_tx \o <<8, 32, 8>>]_vars

C9_Witness ==
    /\ rl_pc = "poll"
    /\ rl_echo
    /\ rl_byte \in {8, 127}
    /\ rl_nread >= 3
    /\ rl_buffer # <<>>
    /\ Len(rl_tx) >= 5
    /\ SubSeq(rl_tx, Len(rl_tx) - 2, Len(rl_tx)) = <<8, 32, 8>>

\* C10: with echo, after every byte what the terminal shows on the input
\* line is the buffer (and nothing is left showing after the cursor); an
\* ignored byte changes neither the buffer nor the terminal.
C10_ShownIsBuffer ==
    /\ [](rl_echo =>
            /\ SubSeq(Shown(rl_tx).cells, 1, Shown(rl_tx).cur) = rl_buffer
            /\ \A i \in (Shown(rl_tx).cur + 1)..Len(Shown(rl_tx).cells) :
                  Shown(rl_tx).cells[i] = 32)
    /\ [][(RlHanded /\ Ignored(rl_byte')) =>
             (rl_buffer' = rl_buffer /\ rl_tx' = rl_tx)]_vars

C10_Witness ==
    /\ rl_echo
    /\ rl_byte = 27
    /\ rl_nread >= 4
    /\ Len(rl_buffer) = 1
    /\ Len(rl_tx) = 5

\* The bytes the running read_line call has read
RlRead == SubSeq(rl_sent, rl_start + 1, rl_nread)

\* Those of them that come before the first CR or LF
RlTyped ==
    LET ends == {i \in 1..Len(RlRead) : RlRead[i] \in {13, 10}}
    IN IF ends = {} THEN RlRead
       ELSE SubSeq(RlRead, 1, (CHOOSE i \in ends : \A j \in ends : i <= j) - 1)

\* The line a byte sequence stands for: 0x20-0x7E and 0x80-0xFF append a
\* character, 0x08 and 0x7F remove the last one if any, the rest is ignored
RECURSIVE Edited(_, _)
Edited(bytes, line) ==
    IF bytes = <<>> THEN line
    ELSE LET b == Head(bytes)
         IN Edited(Tail(bytes),
                   IF (32 <= b /\ b <= 126) \/ (128 <= b /\ b <= 255) THEN Append(line, b)
                   ELSE IF b \in {8, 127} THEN SubSeq(line, 1, Len(line) - 1)
                   ELSE line)

\* The way the last read_line call ended
RlEnded(how) ==
    rl_pc = "returned" /\ rl_lines # <<>> /\ rl_lines[Len(rl_lines)].by = how

\* C11: the buffer is always the line the bytes read so far stand for, and a
\* call ended by the first CR or LF returns the line the bytes before it
\* stand for; the bytes 41 42 7F 43 0D give "AC" and the echo A, B,
\* back-space-back, C, line break.
C11_LineOfBytes ==
    /\ rl_pc \in {"poll", "peek"} => rl_buffer = Edited(RlTyped, <<>>)
    /\ RlEnded("terminator") => rl_ret = Edited(RlTyped, <<>>)
    /\ (RlEnded("terminator") /\ RlTyped = <<65, 66, 127, 67>> /\ RlRead[5] = 13) =>
          /\ rl_ret = <<65, 67>>
          /\ rl_echo => rl_tx = <<65, 66, 8, 32, 8, 67, 13, 10>>

C11_Witness ==
    /\ RlEnded("terminator")
    /\ rl_echo
    /\ RlRead = <<65, 66, 127, 67, 13>>
    /\ rl_ret = <<65, 67>>

\* C12: a call ended by a terminator returns the buffer, the empty string
\* when it is empty and never None; a call ended by the deadline returns
\* None when the buffer is empty and the buffer otherwise, never the empty
\* string.
C12_ThreeOutcomes ==
    /\ RlEnded("terminator") => (rl_ret = rl_buffer /\ rl_ret # NoLine)
    /\ RlEnded("deadline") =>
          /\ rl_buffer = <<>> => rl_ret = NoLine
          /\ rl_buffer # <<>> => rl_ret = rl_buffer
          /\ rl_ret # <<>>

C12_Witness ==
    /\ RlEnded("deadline")
    /\ rl_nread >= 2
    /\ rl_buffer = <<>>
    /\ rl_ret = NoLine

\* C13: a byte read in the short window after a terminator is taken from
\* the port and gives no line of its own: over successive calls there is
\* one line returned on a terminator for each CR or LF read, those read in
\* the window after another terminator not counted.
C13_PairIsOneLine ==
    /\ \A i \in rl_peeks :
          i <= rl_nread /\ i > 1 /\ rl_sent[i - 1] \in {13, 10} /\ (i - 1) \notin rl_peeks
    /\ Cardinality({i \in 1..Len(rl_lines) : rl_lines[i].by = "terminator"})
          + (IF rl_pc = "peek" THEN 1 ELSE 0)
       = Cardinality({i \in 1..rl_nread : rl_sent[i] \in {13, 10} /\ i \notin rl_peeks})

C13_Witness ==
    /\ SubSeq(rl_sent, 1, rl_nread) = <<65, 13, 10, 65, 13>>
    /\ rl_peeks = {3}
    /\ rl_pc = "returned"
    /\ rl_lines = <<[ret |-> <<65>>, by |-> "terminator"],
                    [ret |-> <<65>>, by |-> "terminator"]>>

\* The number of characters in the lines returned so far
RECURSIVE RlReturnedChars(_)
RlReturnedChars(ls) ==
    IF ls = <<>> THEN 0
    ELSE (IF Head(ls).ret = NoLine THEN 0 ELSE Len(Head(ls).ret)) + RlReturnedChars(Tail(ls))

\* C24: a byte read in the window after a terminator is taken from the port
\* and dropped whatever it is: every later call starts after it, and a
\* letter read in the window is in no line, returned or being read (the
\* characters of all lines are the letters read outside the windows).
C24_PeekedByteIsDropped ==
    /\ \A i \in rl_peeks : i <= rl_nread /\ (rl_pc \in {"poll", "peek"} => i <= rl_start)
    /\ RlReturnedChars(rl_lines) + (IF rl_pc \in {"poll", "peek"} THEN Len(rl_buffer) ELSE 0)
       = Cardinality({i \in 1..rl_nread : rl_sent[i] = 65 /\ i \notin rl_peeks})

C24_Witness ==
    /\ SubSeq(rl_sent, 1, rl_nread) = <<65, 13, 65, 65, 13>>
    /\ 3 \in rl_peeks
    /\ rl_pc = "returned"
    /\ rl_lines = <<[ret |-> <<65>>, by |-> "terminator"],
                    [ret |-> <<65>>, by |-> "terminator"]>>

\* C29: on either transport, a read_line call whose timeout has elapsed
\* returns, whether or not a byte arrives.
C29_ReturnsAfterTimeout ==
    (rl_pc \in {"poll", "peek", "input"} /\ rl_elapsed >= rl_timeout) ~> (rl_pc = "returned")

\* The same on SerialMinitel alone
C29_SerialReturnsAfterTimeout ==
    (rl_pc \in {"poll", "peek"} /\ rl_elapsed >= rl_timeout) ~> (rl_pc = "returned")

\* A serial call returned at its deadline without a byte having arrived
C29_SerialWitness ==
    /\ rl_pc = "returned"
    /\ rl_sent = <<>>
    /\ rl_elapsed = rl_timeout
    /\ rl_lines = <<[ret |-> NoLine, by |-> "deadline"]>>

\* A simulated call is still inside input() after its timeout has elapsed
C29_SimulatedStillWaits ==
    rl_pc = "input" /\ rl_sent = <<>> /\ rl_elapsed > rl_timeout

\* ------------------------------------------------------------------------
\* run_serial_autoconfig.  Blocking points: list_serial_ports ("detect"),
\* input() with no port ("noports"), input() of the port ("choose"),
\* serial.Serial(...) ("open"), ser.write ("write"), ser.read(1) ("read"),
\* ser.read(10) ("extra"), input() of the retry ("ask"), after the return
\* ("done").  A port is named by its place in the list of ports.
\* ------------------------------------------------------------------------
SERIAL_CONFIGS == <<
    [baud |-> 1200, bytesize |-> 7, parity |-> "E", stopbits |-> 1, label |-> "1200 7E1"],
    [baud |-> 4800, bytesize |-> 7, parity |-> "E", stopbits |-> 1, label |-> "4800 7E1"],
    [baud |-> 1200, bytesize |-> 8, parity |-> "N", stopbits |-> 1, label |-> "1200 8N1"],
    [baud |-> 4800, bytesize |-> 8, parity |-> "N", stopbits |-> 1, label |-> "4800 8N1"],
    [baud |-> 9600, bytesize |-> 7, parity |-> "E", stopbits |-> 1, label |-> "9600 7E1"],
    [baud |-> 9600, bytesize |-> 8, parity |-> "N", stopbits |-> 1, label |-> "9600 8N1"],
    [baud |-> 300, bytesize |-> 7, parity |-> "E", stopbits |-> 1, label |-> "300 7E1"],
    [baud |-> 2400, bytesize |-> 7, parity |-> "E", stopbits |-> 1, label |-> "2400 7E1"],
    [baud |-> 1200, bytesize |-> 7, parity |-> "N", stopbits |-> 1, label |-> "1200 7N1"],
    [baud |-> 4800, bytesize |-> 7, parity |-> "N", stopbits |-> 1, label |-> "4800 7N1"] >>

\* The 6-second window, in read timeouts of 0.5 s
PROBE_POLLS == 12

\* Bytes the terminal sends during a window: y, Y, n, CR
AcBytes == {121, 89, 110, 13}

\* What ser.read(10) returns after the 0.3 s wait
AcExtras == {<<>>, <<13>>, <<13, 10>>}

\* b"y" in buffer.lower() or b"Y" in buffer
AcHasAck(buf) == \E k \in 1..Len(buf) : buf[k] \in {121, 89}

\* any(c in buffer for c in [b"\r", b"\n", b"y", b"Y"])
AcHasAny(buf) == \E k \in 1..Len(buf) : buf[k] \in {13, 10, 121, 89}

\* AcResult with the parameters of the first table entry
AcResult_FirstEntry(port, config) ==
    [port |-> port,
     baud |-> SERIAL_CONFIGS[1].baud,
     bytesize |-> SERIAL_CONFIGS[1].bytesize,
     parity |-> SERIAL_CONFIGS[1].parity,
     stopbits |-> SERIAL_CONFIGS[1].stopbits,
     line_delay_ms |-> LINE_DELAY_MS,
     char_delay_ms |-> CHAR_DELAY_MS,
     model |-> DEFAULT_MODEL,
     page_lines |-> PAGE_LINES]

\* lines 680-690: the result built for the confirmed candidate
AcResult(port, config) ==
    [port |-> port,
     baud |-> config.baud,
     bytesize |-> config.bytesize,
     parity |-> config.parity,
     stopbits |-> config.stopbits,
     line_delay_ms |-> LINE_DELAY_MS,
     char_delay_ms |-> CHAR_DELAY_MS,
     model |-> DEFAULT_MODEL,
     page_lines |-> PAGE_LINES]

\* AcAdvance when a candidate that did not answer ends the scan
AcAdvance_Abort(i) == [pc |-> "ask", i |-> i]

\* AcAdvance when the candidate after a failed one is passed over
AcAdvance_Skip(i) ==
    IF i + 1 < Len(SERIAL_CONFIGS) THEN [pc |-> "open", i |-> i + 2]
    ELSE [pc |-> "ask", i |-> i]

\* The `for config in SERIAL_CONFIGS` moves on: the next candidate, or the
\* code after the loop
AcAdvance(i) ==
    IF i < Len(SERIAL_CONFIGS) THEN [pc |-> "open", i |-> i + 1]
    ELSE [pc |-> "ask", i |-> i]

\* `return run_serial_autoconfig(debug)`: the function starts again
AcAgain ==
    /\ ac_pass < MaxPasses
    /\ ac_pc' = "detect"
    /\ ac_pass' = ac_pass + 1
    /\ ac_ports' = 0
    /\ ac_port' = 0
    /\ ac_i' = 0
    /\ ac_opened' = <<>>
    /\ ac_buffer' = <<>>
    /\ ac_elapsed' = 0
    /\ ac_seen' = {}
    /\ ac_last_ack' = 0
    /\ ac_ret' = NoConfig

\* `return None`
AcGiveUp ==
    /\ ac_pc' = "done"
    /\ ac_ret' = NoConfig
    /\ UNCHANGED <<ac_pass, ac_ports, ac_port, ac_i, ac_opened, ac_buffer, ac_elapsed,
                   ac_seen, ac_last_ack>>

\* The candidate ac_i is given up, with a failure of some kind or without.
\* buffer and start_time are not read again before the next window assigns
\* them: they are cleared here
AcCandidateFails(kinds) ==
    /\ ac_pc' = AcAdvance(ac_i).pc
    /\ ac_i' = AcAdvance(ac_i).i
    /\ ac_seen' = ac_seen \cup kinds
    /\ ac_buffer' = <<>>
    /\ ac_elapsed' = 0
    /\ UNCHANGED <<ac_pass, ac_ports, ac_port, ac_opened, ac_last_ack, ac_ret>>

\* line 574: list_serial_ports returns
AcDetect ==
    /\ ac_pc = "detect"
    /\ \E n \in 0..MaxPorts :
         /\ ac_ports' = n
         /\ ac_pc' = IF n = 0 THEN "noports" ELSE "choose"
    /\ UNCHANGED <<ac_pass, ac_port, ac_i, ac_opened, ac_buffer, ac_elapsed, ac_seen,
                   ac_last_ack, ac_ret>>
    /\ UNCHANGED offProbe

\* lines 575-590: no port; Enter scans again, Ctrl+C gives up
AcNoPorts ==
    /\ ac_pc = "noports"
    /\ AcAgain \/ AcGiveUp
    /\ UNCHANGED offProbe

\* lines 599-612: the operator's answer to "Choisis un port"
AcChoose ==
    /\ ac_pc = "choose"
    /\ \/ AcAgain                                      \* "r"
       \/ AcGiveUp                                     \* "q"
       \/ \E choice \in 0..(MaxPorts + 1) :            \* int(choice)
            IF 0 <= choice - 1 /\ choice - 1 < ac_ports
            THEN /\ ac_port' = choice
                 /\ ac_i' = 1
                 /\ ac_pc' = "open"
                 /\ UNCHANGED <<ac_pass, ac_ports, ac_opened, ac_buffer, ac_elapsed,
                                ac_seen, ac_last_ack, ac_ret>>
            ELSE UNCHANGED probeVars                   \* "Choix invalide."
       \/ UNCHANGED probeVars                          \* ValueError
    /\ UNCHANGED offProbe

\* lines 623-640: serial.Serial(...) for the candidate ac_i
AcOpen ==
    /\ ac_pc = "open"
    /\ ac_opened' = Append(ac_opened, ac_i)
    /\ \/ /\ ac_pc' = "write"
          /\ UNCHANGED <<ac_i, ac_seen>>
       \/ /\ ac_pc' = AcAdvance(ac_i).pc               \* except: continue
          /\ ac_i' = AcAdvance(ac_i).i
          /\ ac_seen' = ac_seen \cup {"open"}
    /\ UNCHANGED <<ac_pass, ac_ports, ac_port, ac_buffer, ac_elapsed, ac_last_ack, ac_ret>>
    /\ UNCHANGED offProbe

\* lines 643-659: the test message is written; the window starts
AcWrite ==
    /\ ac_pc = "write"
    /\ \/ /\ ac_pc' = "read"
          /\ ac_buffer' = <<>>
          /\ ac_elapsed' = 0
          /\ UNCHANGED <<ac_pass, ac_ports, ac_port, ac_i, ac_opened, ac_seen,
                         ac_last_ack, ac_ret>>
       \/ AcCandidateFails({"write"})                  \* except: ser.close(); continue
    /\ UNCHANGED offProbe

\* lines 661-669, 701-705: one ser.read(1) inside the window
AcRead ==
    /\ ac_pc = "read"
    /\ ac_elapsed < PROBE_POLLS
    /\ \/ \E byte \in AcBytes :
            LET buf == Append(ac_buffer, byte)
            IN /\ AcHasAck(buf) \/ Len(buf) <= MaxProbeBytes
               /\ ac_buffer' = buf
               /\ ac_pc' = IF AcHasAck(buf) THEN "extra" ELSE "read"
               /\ ac_last_ack' = IF AcHasAck(buf) THEN ac_i ELSE ac_last_ack
               /\ UNCHANGED <<ac_pass, ac_ports, ac_port, ac_i, ac_opened, ac_elapsed,
                              ac_seen, ac_ret>>
       \/ /\ ac_elapsed' = ac_elapsed + 1              \* the read timed out
          /\ UNCHANGED <<ac_pc, ac_pass, ac_ports, ac_port, ac_i, ac_opened, ac_buffer,
                         ac_seen, ac_last_ack, ac_ret>>
       \/ AcCandidateFails({"read"})                   \* except: break; ser.close()
    /\ UNCHANGED offProbe

\* lines 670-705: after a 'y', the rest of the line is read and the
\* candidate is returned
AcExtra ==
    /\ ac_pc = "extra"
    /\ \/ \E extra \in AcExtras :
            LET buf == ac_buffer \o extra
            IN /\ IF AcHasAny(buf)
                  THEN /\ ac_ret' = <<AcResult(ac_port, SERIAL_CONFIGS[ac_i])>>
                       /\ ac_pc' = "done"
                       /\ ac_buffer' = <<>>           \* the locals end with the call
                       /\ ac_elapsed' = 0
                  ELSE /\ ac_ret' = ac_ret
                       /\ ac_pc' = "read"
                       /\ ac_buffer' = buf
                       /\ ac_elapsed' = ac_elapsed
               /\ UNCHANGED <<ac_pass, ac_ports, ac_port, ac_i, ac_opened, ac_seen,
                              ac_last_ack>>
       \/ AcCandidateFails({"read"})                   \* except: break; ser.close()
    /\ UNCHANGED offProbe

\* lines 661, 704-705: the window is over, "pas de réponse"
AcNoAnswer ==
    /\ ac_pc = "read"
    /\ ac_elapsed >= PROBE_POLLS
    /\ AcCandidateFails({})
    /\ UNCHANGED offProbe

\* lines 735-739: "Réessayer? [o/N]"
AcAsk ==
    /\ ac_pc = "ask"
    /\ AcAgain \/ AcGiveUp
    /\ UNCHANGED offProbe

InitProbe ==
    /\ ac_pc = "detect"
    /\ ac_pass = 1
    /\ ac_ports = 0
    /\ ac_port = 0
    /\ ac_i = 0
    /\ ac_opened = <<>>
    /\ ac_buffer = <<>>
    /\ ac_elapsed = 0
    /\ ac_seen = {}
    /\ ac_last_ack = 0
    /\ ac_ret = NoConfig
    /\ DisplayIdle
    /\ ReadLineIdle
    /\ HistoryIdle
    /\ ShellIdle
    /\ TransportIdle
    /\ ClientIdle
    /\ MainIdle

NextProbe ==
    \/ AcDetect
    \/ AcNoPorts
    \/ AcChoose
    \/ AcOpen
    \/ AcWrite
    \/ AcRead
    \/ AcExtra
    \/ AcNoAnswer
    \/ AcAsk

SpecProbe == InitProbe /\ [][NextProbe]_vars

\* The candidates opened in this pass are the first ones of the table, in
\* table order, each once
AcInTableOrder == ac_opened = [k \in 1..Len(ac_opened) |-> k]

C15_OnlyConfirmed ==
    /\ ac_ret # NoConfig =>
          /\ ac_pc = "done"
          /\ ac_last_ack = ac_i
          /\ ac_ret[1].port = ac_port
          /\ ac_ret[1].baud = SERIAL_CONFIGS[ac_i].baud
          /\ ac_ret[1].bytesize = SERIAL_CONFIGS[ac_i].bytesize
          /\ ac_ret[1].parity = SERIAL_CONFIGS[ac_i].parity
          /\ ac_ret[1].stopbits = SERIAL_CONFIGS[ac_i].stopbits
    /\ ac_pc = "ask" => ac_ret = NoConfig
    /\ (ac_pc = "done" /\ ac_last_ack # ac_i) => ac_ret = NoConfig

C15_Witness ==
    /\ ac_pc = "done"
    /\ ac_pass = 2
    /\ ac_port = 2
    /\ ac_i = 3
    /\ ac_ret # NoConfig
    /\ ac_ret[1].bytesize = 8

\* C16: whatever failed, the candidate after the failed one is the next to
\* be opened, and a scan that has begun ends without a configuration only
\* after every candidate of the table was opened.
C16_FailuresNotFatal ==
    /\ ac_pc = "open" => Len(ac_opened) = ac_i - 1
    /\ ac_pc \in {"write", "read", "extra"} => Len(ac_opened) = ac_i
    /\ ac_pc = "ask" => Len(ac_opened) = Len(SERIAL_CONFIGS)
    /\ (ac_pc = "done" /\ ac_ret = NoConfig /\ ac_opened # <<>>) =>
          Len(ac_opened) = Len(SERIAL_CONFIGS)

C16_Witness ==
    /\ ac_pc = "done"
    /\ ac_ret # NoConfig
    /\ ac_seen = {"open", "write", "read"}
    /\ ac_i = 4

\* ------------------------------------------------------------------------
\* HistoryStore.  A message is a record of role and content; history.json
\* holds a list of messages, or something that is not a list, or is absent.
\* ------------------------------------------------------------------------
HsRoles == {"user", "assistant"}
HsContents == {<<"q">>, <<"a", "a", "a">>}
HsMessages == [role : HsRoles, content : HsContents]

\* The caps a store is built with
HsMaxTurns == {1, 2}
HsMaxChars == {0, 3, 4}

\* The lists of at most n messages
RECURSIVE HsLists(_)
HsLists(n) ==
    IF n = 0 THEN {<<>>}
    ELSE HsLists(n - 1) \cup {Append(l, m) : l \in {k \in HsLists(n - 1) : Len(k) = n - 1},
                                             m \in HsMessages}

\* What history.json can hold when the program starts
HsFiles == {NoFile, NotAList} \cup {FileOf(l) : l \in HsLists(MaxFile)}

\* sum(len(m.get("content", "")) for m in messages)
RECURSIVE TotalChars(_)
TotalChars(msgs) ==
    IF msgs = <<>> THEN 0 ELSE Len(Head(msgs).content) + TotalChars(Tail(msgs))

\* lines 189-190: the oldest message is popped while there are too many
RECURSIVE TrimTurns(_, _)
TrimTurns(msgs, max_turns) ==
    IF Len(msgs) > max_turns * 2 THEN TrimTurns(Tail(msgs), max_turns) ELSE msgs

\* TrimChars when the last message is never popped
RECURSIVE TrimChars_KeepOne(_, _, _)
TrimChars_KeepOne(msgs, total_chars, max_chars) ==
    IF total_chars > max_chars /\ Len(msgs) > 1
    THEN TrimChars_KeepOne(Tail(msgs), total_chars - Len(Head(msgs).content), max_chars)
    ELSE msgs

\* lines 193-195: the oldest message is popped while the total is too large
RECURSIVE TrimChars(_, _, _)
TrimChars(msgs, total_chars, max_chars) ==
    IF total_chars > max_chars /\ msgs # <<>>
    THEN TrimChars(Tail(msgs), total_chars - Len(Head(msgs).content), max_chars)
    ELSE msgs

\* HistoryStore._trim
Trim(msgs, max_turns, max_chars) ==
    LET kept == TrimTurns(msgs, max_turns)
    IN TrimChars(kept, TotalChars(kept), max_chars)

\* HistoryStore.load
HsLoad ==
    /\ hs_op' = "load"
    /\ hs_before' = hs_file.data                 \* [] when the file holds no list
    /\ hs_messages' = IF hs_file = NoFile THEN <<>>          \* returns before _trim
                      ELSE Trim(hs_before', hs_max_turns, hs_max_chars)
    /\ UNCHANGED <<hs_max_turns, hs_max_chars, hs_file>>
    /\ UNCHANGED offHistory

\* HistoryStore.save; the write may fail with IOError and leave the file
HsSave ==
    /\ hs_op' = "save"
    /\ hs_before' = hs_messages
    /\ hs_messages' = Trim(hs_messages, hs_max_turns, hs_max_chars)
    /\ hs_file' \in {FileOf(hs_messages'), hs_file}
    /\ UNCHANGED <<hs_max_turns, hs_max_chars>>
    /\ UNCHANGED offHistory

\* HistoryStore.add(role, content)
HsAdd ==
    /\ \E role \in HsRoles, content \in HsContents :
         hs_before' = Append(hs_messages, [role |-> role, content |-> content])
    /\ hs_op' = "add"
    /\ hs_messages' = Trim(hs_before', hs_max_turns, hs_max_chars)
    /\ UNCHANGED <<hs_max_turns, hs_max_chars, hs_file>>
    /\ UNCHANGED offHistory

\* HistoryStore.reset; unlink may fail with IOError and leave the file
HsReset ==
    /\ hs_op' = "reset"
    /\ hs_before' = <<>>
    /\ hs_messages' = <<>>
    /\ hs_file' \in {NoFile, hs_file}
    /\ UNCHANGED <<hs_max_turns, hs_max_chars>>
    /\ UNCHANGED offHistory

\* HistoryStore(filepath, max_turns, max_chars), history.json being anything
InitHistory ==
    /\ hs_max_turns \in HsMaxTurns
    /\ hs_max_chars \in HsMaxChars
    /\ hs_messages = <<>>
    /\ hs_file \in HsFiles
    /\ hs_op = "init"
    /\ hs_before = <<>>
    /\ DisplayIdle
    /\ ReadLineIdle
    /\ ProbeIdle
    /\ ShellIdle
    /\ TransportIdle
    /\ ClientIdle
    /\ MainIdle

NextHistory == HsLoad \/ HsSave \/ HsAdd \/ HsReset

SpecHistory == InitHistory /\ [][NextHistory]_vars

\* The last n elements of a list
LastOf(l, n) == SubSeq(l, Len(l) - n + 1, Len(l))

\* A list is within both caps
WithinCaps(msgs) ==
    /\ Len(msgs) <= 2 * hs_max_turns
    /\ TotalChars(msgs) <= hs_max_chars

\* C17: after add, load and save the messages are within both caps and are
\* the longest suffix, of the list handed to _trim, that is within both.
C17_LongestSuffixWithinCaps ==
    hs_op \in {"add", "load", "save"} =>
        /\ WithinCaps(hs_messages)
        /\ Len(hs_messages) <= Len(hs_before)
        /\ hs_messages = LastOf(hs_before, Len(hs_messages))
        /\ \A n \in 0..Len(hs_before) :
              WithinCaps(LastOf(hs_before, n)) => n <= Len(hs_messages)

C17_Witness ==
    /\ hs_op = "add"
    /\ Len(hs_before) = 2 * hs_max_turns + 1
    /\ Len(hs_messages) = Len(hs_before) - 2
    /\ Len(hs_messages) >= 1

\* ------------------------------------------------------------------------
\* run_shell.  One step is one turn of its `while True`: read_line returns,
\* the line is handled, the prompt is written again.  What is written to
\* the terminal is kept as the calls made on minitel; the display of a
\* response is one such call, display_streaming or display_wrapped.
\* ------------------------------------------------------------------------
\* str.lower() for the letters that occur
UpperCase == <<"A", "B", "C", "D", "E", "F", "G", "H", "I", "J", "K", "L", "M",
               "N", "O", "P", "Q", "R", "S", "T", "U", "V", "W", "X", "Y", "Z">>
LowerCase == <<"a", "b", "c", "d", "e", "f", "g", "h", "i", "j", "k", "l", "m",
               "n", "o", "p", "q", "r", "s", "t", "u", "v", "w", "x", "y", "z">>
Lower(s) ==
    [k \in 1..Len(s) |->
        IF \E j \in 1..26 : UpperCase[j] = s[k]
        THEN LowerCase[CHOOSE j \in 1..26 : UpperCase[j] = s[k]]
        ELSE s[k]]

\* s.rstrip() and s.strip()
RStrip(s) ==
    IF \A k \in 1..Len(s) : IsSpace(s[k]) THEN <<>>
    ELSE SubSeq(s, 1, CHOOSE k \in 1..Len(s) :
                         ~IsSpace(s[k]) /\ \A j \in (k+1)..Len(s) : IsSpace(s[j]))
Strip(s) == RStrip(LStrip(s))

\* s.split(maxsplit=1), for s that is stripped and not empty
SplitOnce(s) ==
    IF \E k \in 1..Len(s) : IsSpace(s[k])
    THEN LET sp == CHOOSE k \in 1..Len(s) : IsSpace(s[k]) /\ \A j \in 1..(k-1) : ~IsSpace(s[j])
         IN <<SubSeq(s, 1, sp - 1), LStrip(SubSeq(s, sp, Len(s)))>>
    ELSE <<s>>

\* s.startswith("/")
StartsWithSlash(s) == s # <<>> /\ s[1] = "/"

Digits == <<"0", "1", "2", "3", "4", "5", "6", "7", "8", "9">>
IsDigit(c) == \E d \in 1..10 : Digits[d] = c
DigitValue(c) == (CHOOSE d \in 1..10 : Digits[d] = c) - 1

\* The value of a run of digits
RECURSIVE DigitsValue(_)
DigitsValue(s) ==
    IF s = <<>> THEN 0
    ELSE 10 * DigitsValue(SubSeq(s, 1, Len(s) - 1)) + DigitValue(s[Len(s)])

\* int(arg) for text made of digits, signs, letters and blanks: whether it
\* raises ValueError, and its value when it does not
IntFails(arg) ==
    LET t == Strip(arg)
        body == IF t # <<>> /\ t[1] \in {"+", "-"} THEN Tail(t) ELSE t
    IN body = <<>> \/ \E k \in 1..Len(body) : ~IsDigit(body[k])

IntValue(arg) ==
    LET t == Strip(arg)
        body == IF t[1] \in {"+", "-"} THEN Tail(t) ELSE t
    IN IF t[1] = "-" THEN 0 - DigitsValue(body) ELSE DigitsValue(body)

\* f"{n}" for an int
RECURSIVE StrNat(_)
StrNat(n) == IF n < 10 THEN <<Digits[n + 1]>> ELSE StrNat(n \div 10) \o <<Digits[(n % 10) + 1]>>
Str(n) == IF n < 0 THEN <<"-">> \o StrNat(0 - n) ELSE StrNat(n)

\* The lines read_line hands to run_shell
ShLines == {
    <<>>,
    <<" ">>,
    <<"h", "i">>,
    <<" ", "h", "i", " ">>,
    <<"h", "/", "i">>,
    <<"/">>,
    <<"/", "h", "e", "l", "p">>,
    <<"/", "H", "E", "L", "P">>,
    <<" ", "/", "h", "e", "l", "p">>,
    <<"/", "h", "e", "l", "p", " ", "m", "e">>,
    <<"/", "c", "l", "e", "a", "r">>,
    <<"/", "q", "u", "i", "t">>,
    <<"/", "r", "e", "s", "e", "t">>,
    <<"/", "m", "o", "d", "e", "l">>,
    <<"/", "m", "o", "d", "e", "l", " ", "m", "2">>,
    <<"/", "d", "e", "b", "u", "g">>,
    <<"/", "h", "i", "s", "t", "o", "r", "y", "_", "r", "e", "s", "e", "t">>,
    <<"/", "n", "o", "p", "a", "g", "e">>,
    <<"/", "n", "o", "p", "e">>,
    <<"/", "t", "h", "r", "o", "t", "t", "l", "e">>,
    <<"/", "t", "h", "r", "o", "t", "t", "l", "e", " ", "2", "0", "0", " ">>,
    <<"/", "t", "h", "r", "o", "t", "t", "l", "e", " ", "2", "0", "0">>,
    <<"/", "t", "h", "r", "o", "t", "t", "l", "e", " ", "-", "3">>,
    <<"/", "t", "h", "r", "o", "t", "t", "l", "e", " ", "+", "2", "0", "0">>,
    <<"/", "t", "h", "r", "o", "t", "t", "l", "e", " ", "0", "2", "0", "0">>,
    <<"/", "t", "h", "r", "o", "t", "t", "l", "e", " ", " ", "2", "0", "0">>,
    <<"/", "t", "h", "r", "o", "t", "t", "l", "e", " ", "x">>,
    <<"/", "t", "h", "r", "o", "t", "t", "l", "e", " ", "5", " ", "6">>,
    <<"/", "t", "h", "r", "o", "t", "t", "l", "e", " ", "1", "x">>,
    <<"/", "t", "h", "r", "o", "t", "t", "l", "e", " ", "-">>,
    <<"/", "T", "h", "r", "o", "t", "t", "l", "e", " ", "2", "0", "0">>
}

\* The texts run_shell writes
MsgBye == <<"A", "u", " ", "r", "e", "v", "o", "i", "r", "!">>
MsgReset == <<"R", "e", "l", "a", "n", "c", "e", " ", "c", "o", "n", "f", "i", "g", " ", "s", "e", "r", "i", "e", ".", ".", ".">>
MsgModel == <<"M", "o", "d", "e", "l", "e", ":", " ">>
MsgModelNow == <<"M", "o", "d", "e", "l", "e", " ", "a", "c", "t", "u", "e", "l", ":", " ">>
MsgDebugOn == <<"D", "e", "b", "u", "g", " ", "R", "X", " ", "a", "c", "t", "i", "f">>
MsgDebugOff == <<"D", "e", "b", "u", "g", " ", "R", "X", " ", "d", "e", "s", "a", "c", "t", "i", "v", "e">>
MsgHistory == <<"H", "i", "s", "t", "o", "r", "i", "q", "u", "e", " ", "e", "f", "f", "a", "c", "e">>
MsgPageOn == <<"P", "a", "g", "i", "n", "a", "t", "i", "o", "n", " ", "a", "c", "t", "i", "v", "e", "e">>
MsgPageOff == <<"P", "a", "g", "i", "n", "a", "t", "i", "o", "n", " ", "d", "e", "s", "a", "c", "t", "i", "v", "e", "e">>
MsgDelay == <<"D", "e", "l", "a", "i", ":", " ">>
MsgMs == <<"m", "s">>
MsgUsage == <<"U", "s", "a", "g", "e", ":", " ", "/", "t", "h", "r", "o", "t", "t", "l", "e", " ", "<", "m", "s", ">">>
MsgDelayNow == <<"D", "e", "l", "a", "i", " ", "a", "c", "t", "u", "e", "l", ":", " ">>
MsgUnknown == <<"C", "o", "m", "m", "a", "n", "d", "e", " ", "i", "n", "c", "o", "n", "n", "u", "e", ":", " ">>
MsgApiError == <<"E", "r", "r", "e", "u", "r", " ", "A", "P", "I", ".", " ", "R", "e", "e", "s", "s", "a", "i", "e", ".">>
MsgCtrlC == <<"C", "t", "r", "l", "+", "C", " ", "d", "e", "t", "e", "c", "t", "e", ".">>
MsgPrompt == <<">", " ">>
MsgRule == <<"=", "=", "=", "=", "=", "=", "=", "=", "=", "=", "=", "=", "=", "=", "=", "=", "=", "=", "=", "=", "=", "=", "=", "=", "=", "=", "=", "=", "=", "=", "=", "=", "=", "=", "=", "=", "=", "=", "=", "=">>
MsgTitle == <<" ", " ", "M", "I", "N", "I", "T", "E", "L", "-", "G", "P", "T">>
MsgHint == <<" ", " ", "T", "a", "p", "e", " ", "/", "h", "e", "l", "p", " ", "p", "o", "u", "r", " ", "l", "e", "s", " ", "c", "o", "m", "m", "a", "n", "d", "e", "s">>

\* The commands run_shell knows
CmdHelp == <<"/", "h", "e", "l", "p">>
CmdClear == <<"/", "c", "l", "e", "a", "r">>
CmdQuit == <<"/", "q", "u", "i", "t">>
CmdReset == <<"/", "r", "e", "s", "e", "t">>
CmdModel == <<"/", "m", "o", "d", "e", "l">>
CmdDebug == <<"/", "d", "e", "b", "u", "g">>
CmdHistoryReset == <<"/", "h", "i", "s", "t", "o", "r", "y", "_", "r", "e", "s", "e", "t">>
CmdNopage == <<"/", "n", "o", "p", "a", "g", "e">>
CmdThrottle == <<"/", "t", "h", "r", "o", "t", "t", "l", "e">>

\* The responses of the remote text service, and the model names
ShResponses == {<<>>, <<"o", "k">>}
ModelM2 == <<"m", "2">>
DefaultModelText == <<"g", "p", "t", "-", "4", "o", "-", "m", "i", "n", "i">>

\* The calls run_shell makes on minitel
ShWrite(t) == [op |-> "write", text |-> t]
ShWriteln(t) == [op |-> "writeln", text |-> t]
ShClear == [op |-> "clear", text |-> <<>>]
ShShowHelp == [op |-> "show_help", text |-> <<>>]
ShDisplay(streamed, t) ==
    [op |-> IF streamed THEN "display_streaming" ELSE "display_wrapped", text |-> t]

\* lines 935-941 and 946: the banner, then the first prompt
ShBanner ==
    <<ShClear, ShWriteln(MsgRule), ShWriteln(MsgTitle), ShWriteln(MsgHint),
      ShWriteln(MsgRule), ShWriteln(<<>>), ShWrite(MsgPrompt)>>

\* A value that may be missing from the configuration: <<>> or <<value>>
Missing == <<>>
ConfigGet(entry, default) == IF entry = Missing THEN default ELSE entry[1]

\* ShThrottle when the delay is set but not put in the configuration
ShThrottle_NotSaved(st, arg) ==
    IF arg # <<>>
    THEN IF IntFails(arg)
         THEN [st EXCEPT !.out = <<ShWriteln(MsgUsage)>>]
         ELSE [st EXCEPT !.delay = IntValue(arg),
                         !.out = <<ShWriteln(MsgDelay \o Str(IntValue(arg)) \o MsgMs)>>]
    ELSE [st EXCEPT !.out = <<ShWriteln(MsgDelayNow \o Str(st.delay) \o MsgMs)>>]

\* lines 1011-1022: /throttle
ShThrottle(st, arg) ==
    IF arg # <<>>
    THEN IF IntFails(arg)
         THEN [st EXCEPT !.out = <<ShWriteln(MsgUsage)>>]
         ELSE [st EXCEPT !.delay = IntValue(arg),
                         !.config.line_delay_ms = <<IntValue(arg)>>,
                         !.saved = TRUE,
                         !.out = <<ShWriteln(MsgDelay \o Str(IntValue(arg)) \o MsgMs)>>]
    ELSE [st EXCEPT !.out = <<ShWriteln(MsgDelayNow \o Str(st.delay) \o MsgMs)>>]

\* lines 958-1027: a line that starts with "/"
ShCommand(st, user_input) ==
    LET cmd_parts == SplitOnce(user_input)
        cmd == Lower(cmd_parts[1])
        arg == IF Len(cmd_parts) > 1 THEN cmd_parts[2] ELSE <<>>
    IN CASE cmd = CmdHelp -> [st EXCEPT !.out = <<ShShowHelp>>]
         [] cmd = CmdClear -> [st EXCEPT !.out = <<ShClear>>]
         [] cmd = CmdQuit -> [st EXCEPT !.out = <<ShWriteln(MsgBye)>>,
                                       !.pc = "done", !.ret = "quit"]
         [] cmd = CmdReset -> [st EXCEPT !.out = <<ShWriteln(MsgReset)>>,
                                        !.pc = "done", !.ret = "reset"]
         [] cmd = CmdModel ->
              IF arg # <<>>
              THEN [st EXCEPT !.model = Strip(arg),
                              !.config.model = <<Strip(arg)>>,
                              !.saved = TRUE,
                              !.out = <<ShWriteln(MsgModel \o Strip(arg))>>]
              ELSE [st EXCEPT !.out = <<ShWriteln(MsgModelNow \o st.model)>>]
         [] cmd = CmdDebug ->
              [st EXCEPT !.debug_rx = ~st.debug_rx,
                         !.out = <<ShWriteln(IF ~st.debug_rx THEN MsgDebugOn ELSE MsgDebugOff)>>]
         [] cmd = CmdHistoryReset ->
              [st EXCEPT !.history_reset = TRUE, !.out = <<ShWriteln(MsgHistory)>>]
         [] cmd = CmdNopage ->
              [st EXCEPT !.pagination = ~st.pagination,
                         !.out = <<ShWriteln(IF ~st.pagination THEN MsgPageOn ELSE MsgPageOff)>>]
         [] cmd = CmdThrottle -> ShThrottle(st, arg)
         [] OTHER -> [st EXCEPT !.out = <<ShWriteln(MsgUnknown \o cmd)>>]

\* ShIsCommand when a line is a command only if "/" is its very first character
ShIsCommand_Unstripped(line) == StartsWithSlash(line)

\* lines 952 and 957: the line, stripped, starts with "/"
ShIsCommand(line) == StartsWithSlash(Strip(line))

\* run_shell's locals and the fields of minitel and config it may change,
\* before a line is handled
ShState ==
    [out |-> <<>>, delay |-> sh_delay, config |-> sh_config, saved |-> FALSE,
     model |-> sh_model, debug_rx |-> sh_debug_rx, pagination |-> sh_pagination,
     history_reset |-> FALSE, pc |-> "prompt", ret |-> "none"]

\* the end of a turn: the fields are stored, the prompt is written again
\* (line 946) unless the loop was left
ShStore(line, request, new) ==
    /\ sh_input' = line
    /\ sh_request' = request
    /\ sh_out' = IF new.pc = "prompt" THEN Append(new.out, ShWrite(MsgPrompt)) ELSE new.out
    /\ sh_delay' = new.delay
    /\ sh_config' = new.config
    /\ sh_saved' = new.saved
    /\ sh_disk' = IF new.saved THEN new.config ELSE sh_disk    \* the write succeeds
    /\ sh_model' = new.model
    /\ sh_debug_rx' = new.debug_rx
    /\ sh_pagination' = new.pagination
    /\ sh_pc' = new.pc
    /\ sh_ret' = new.ret

\* lines 949-1027: None, an empty line or a local command
ShLocal(line) ==
    LET user_input == IF line = None THEN <<>> ELSE Strip(line)
        new == IF user_input = <<>> THEN ShState ELSE ShCommand(ShState, user_input)
    IN /\ ShStore(line, <<>>, new)
       /\ IF new.history_reset
          THEN /\ hs_messages' = <<>>             \* history.reset()
               /\ hs_before' = <<>>
               /\ hs_op' = "reset"
               /\ hs_file' \in {NoFile, hs_file}
          ELSE UNCHANGED <<hs_messages, hs_before, hs_op, hs_file>>

\* lines 1030-1061: the line is sent with the history; the answer is shown
\* and both are added to the history, unless the call or the display raised
ShForward(line, response, failed) ==
    LET user_input == Strip(line)
        messages == Append(hs_messages, [role |-> "user", content |-> user_input])
        with_user == Trim(messages, hs_max_turns, hs_max_chars)
        with_both == Trim(Append(with_user, [role |-> "assistant", content |-> response]),
                          hs_max_turns, hs_max_chars)
        shown == <<ShWriteln(<<>>), ShDisplay(sh_stream, response)>>
        new == [ShState EXCEPT
                  !.out = IF failed
                          THEN shown \o <<ShWriteln(<<>>), ShWriteln(MsgApiError),
                                          ShWriteln(<<>>)>>
                          ELSE Append(shown, ShWriteln(<<>>))]
    IN /\ ShStore(line, <<[model |-> sh_model, messages |-> messages]>>, new)
       /\ IF failed
          THEN UNCHANGED <<hs_messages, hs_before, hs_op, hs_file>>
          ELSE /\ hs_messages' = with_both        \* add, add, save
               /\ hs_before' = with_both
               /\ hs_op' = "save"
               /\ hs_file' \in {FileOf(with_both), hs_file}

\* lines 944-1062: one turn of the loop, read_line returning one of typed
\* and openai_client.call yielding one of texts
ShTurnOn(typed, texts) ==
    /\ sh_pc = "prompt"
    /\ \E line \in typed :
         IF line # None /\ Strip(line) # <<>> /\ ~ShIsCommand(line)
         THEN \E response \in texts, failed \in BOOLEAN :
                 ShForward(line, response, failed)
         ELSE ShLocal(line)
    /\ UNCHANGED <<sh_stream, hs_max_turns, hs_max_chars>>
    /\ UNCHANGED offShell

\* A turn on any line, the remote call succeeding
ShTurn == ShTurnOn(ShLines \cup {None}, ShResponses)

\* line 259: f"[Erreur API: {type(e).__name__}]", the one text call() yields
\* when its last attempt fails
ShErrorLine(type_name) ==
    <<"[", "E", "r", "r", "e", "u", "r", " ", "A", "P", "I", ":", " ">> \o type_name \o <<"]">>
ShErrorTypes == {<<"A", "P", "I", "E", "r", "r", "o", "r">>}
ShErrorLines == {ShErrorLine(t) : t \in ShErrorTypes}

\* What call() may yield in all: the text of the service, or its error line
ShReplies == ShResponses \cup ShErrorLines

\* The lines of a conversation: a message, the command that empties the
\* history, no line
ShChatLines == {<<"h", "i">>, <<"/", "h", "i", "s", "t", "o", "r", "y", "_", "r", "e", "s", "e", "t">>, None}

\* A turn of a conversation, the remote call succeeding or failing
ShChatTurn == ShTurnOn(ShChatLines, ShReplies)

\* lines 1064-1067: Ctrl+C while the loop runs
ShInterrupt ==
    /\ sh_pc = "prompt"
    /\ sh_input' = None
    /\ sh_request' = <<>>
    /\ sh_out' = <<ShWriteln(<<>>), ShWriteln(MsgCtrlC)>>
    /\ sh_saved' = FALSE
    /\ sh_pc' = "done"
    /\ sh_ret' = "quit"
    /\ UNCHANGED <<sh_stream, sh_delay, sh_config, sh_disk, sh_model, sh_debug_rx,
                   sh_pagination>>
    /\ UNCHANGED historyVars
    /\ UNCHANGED offShell

\* run_shell has been called and waits at its first prompt
InitShell ==
    /\ sh_pc = "prompt"
    /\ sh_ret = "none"
    /\ sh_stream \in BOOLEAN
    /\ sh_config \in {[model |-> Missing, line_delay_ms |-> Missing],
                      [model |-> <<DefaultModelText>>, line_delay_ms |-> <<LINE_DELAY_MS>>]}
    /\ sh_disk = sh_config
    /\ sh_saved = FALSE
    /\ sh_delay = ConfigGet(sh_config.line_delay_ms, LINE_DELAY_MS)
    /\ sh_model = ConfigGet(sh_config.model, DefaultModelText)
    /\ sh_debug_rx \in BOOLEAN
    /\ sh_pagination = TRUE
    /\ sh_input = None
    /\ sh_request = <<>>
    /\ sh_out = ShBanner
    /\ hs_max_turns = 1
    /\ hs_max_chars = 0
    /\ hs_messages = <<>>
    /\ hs_file = NoFile
    /\ hs_op = "load"
    /\ hs_before = <<>>
    /\ DisplayIdle
    /\ ReadLineIdle
    /\ ProbeIdle
    /\ TransportIdle
    /\ ClientIdle
    /\ MainIdle

NextShell == ShTurn \/ ShInterrupt

SpecShell == InitShell /\ [][NextShell]_vars

\* run_shell waits at its first prompt with a history that keeps two
\* exchanges and MAX_HISTORY_CHARS characters
InitShellChat ==
    /\ sh_pc = "prompt"
    /\ sh_ret = "none"
    /\ sh_stream \in BOOLEAN
    /\ sh_config = [model |-> Missing, line_delay_ms |-> Missing]
    /\ sh_disk = sh_config
    /\ sh_saved = FALSE
    /\ sh_delay = LINE_DELAY_MS
    /\ sh_model = DefaultModelText
    /\ sh_debug_rx \in BOOLEAN
    /\ sh_pagination = TRUE
    /\ sh_input = None
    /\ sh_request = <<>>
    /\ sh_out = ShBanner
    /\ hs_max_turns = 2
    /\ hs_max_chars = MAX_HISTORY_CHARS
    /\ hs_messages = <<>>
    /\ hs_file = NoFile
    /\ hs_op = "load"
    /\ hs_before = <<>>
    /\ DisplayIdle
    /\ ReadLineIdle
    /\ ProbeIdle
    /\ TransportIdle
    /\ ClientIdle
    /\ MainIdle

NextShellChat == ShChatTurn \/ ShInterrupt

SpecShellChat == InitShellChat /\ [][NextShellChat]_vars

\* ------------------------------------------------------------------------
\* Claims about run_shell
\* ------------------------------------------------------------------------
\* The first character of a line that is not a blank is "/"
FirstNonBlankIsSlash(line) ==
    \E k \in 1..Len(line) : line[k] = "/" /\ \A j \in 1..(k - 1) : line[j] = SP

\* A line holds a character that is not a blank
HasNonBlank(line) == \E k \in 1..Len(line) : line[k] # SP

\* The first word of a line, in lower case, and what follows it
CommandOf(line) == Lower(SplitOnce(Strip(line))[1])
ArgumentOf(line) ==
    IF Len(SplitOnce(Strip(line))) > 1 THEN SplitOnce(Strip(line))[2] ELSE <<>>

\* Integers to compare an argument with
ShInts == {0 - 3, 0, 5, 200}

\* A text is a decimal numeral: an optional sign, then one digit or more
IsNumeral(arg) ==
    LET from == IF arg # <<>> /\ arg[1] \in {"+", "-"} THEN 2 ELSE 1
    IN /\ from <= Len(arg)
       /\ \A k \in from..Len(arg) : arg[k] \in {"0", "1", "2", "3", "4", "5", "6", "7", "8", "9"}

\* A numeral is one of n: its digits, leading zeros apart, are those of |n|
\* and its sign is that of n
Denotes(arg, n) ==
    LET from == IF arg[1] \in {"+", "-"} THEN 2 ELSE 1
        written == Str(IF n < 0 THEN 0 - n ELSE n)
        zeros == Len(arg) - from + 1 - Len(written)
    IN /\ zeros >= 0
       /\ \A k \in from..(from + zeros - 1) : arg[k] = "0"
       /\ SubSeq(arg, from + zeros, Len(arg)) = written
       /\ (n < 0) => arg[1] = "-"
       /\ (n > 0) => arg[1] # "-"

\* run_shell has just handled a line
ShHandled == sh_pc = "prompt" /\ sh_input' # None

KnownCommands ==
    {CmdHelp, CmdClear, CmdQuit, CmdReset, CmdModel, CmdDebug, CmdHistoryReset, CmdNopage,
     CmdThrottle}

\* A line whose first non-blank character is "/" is handled locally: nothing
\* is sent to the remote service, nothing is added to the history, and a
\* command that is not known gives the "unknown command" message
ShSlashIsLocal ==
    /\ [](FirstNonBlankIsSlash(sh_input) =>
            /\ sh_request = <<>>
            /\ CommandOf(sh_input) \notin KnownCommands =>
                  sh_out = <<ShWriteln(MsgUnknown \o CommandOf(sh_input)), ShWrite(MsgPrompt)>>)
    /\ [][(ShHandled /\ FirstNonBlankIsSlash(sh_input')) =>
            (hs_messages' = hs_messages \/ hs_messages' = <<>>)]_vars

RlShellKeys == {13, 65, 47}

\* The character of a code point, as run_shell's texts write it
CharOf(code) ==
    CASE code = 65 -> "A"
      [] code = 47 -> "/"
      [] code = 32 -> " "
      [] OTHER     -> "?"

\* The value read_line returned, as run_shell receives it
LineOf(returned) ==
    IF returned = NoLine THEN None ELSE [i \in 1..Len(returned) |-> CharOf(returned[i])]

\* lines 947-1062: read_line has returned; the line is handled and, the
\* loop going on, read_line is called again
ShReadTurn ==
    /\ sh_pc = "prompt"
    /\ rl_pc = "returned"
    /\ LET line == LineOf(rl_ret)
       IN IF line # None /\ Strip(line) # <<>> /\ ~ShIsCommand(line)
          THEN \E failed \in BOOLEAN : ShForward(line, <<"o", "k">>, failed)
          ELSE ShLocal(line)
    /\ rl_pc' = IF sh_pc' = "prompt" /\ Len(rl_lines) < MaxCalls THEN "poll" ELSE "idle"
    /\ rl_elapsed' = 0
    /\ rl_buffer' = <<>>
    /\ rl_tx' = <<>>
    /\ rl_start' = rl_nread
    /\ UNCHANGED <<rl_echo, rl_timeout, rl_byte, rl_nread, rl_ret, rl_sent, rl_peeks,
                   rl_lines>>
    /\ UNCHANGED <<sh_stream, hs_max_turns, hs_max_chars>>
    /\ UNCHANGED <<displayVars, probeVars, transportVars, clientVars, mainVars>>

\* run_shell has written its first prompt and called read_line(timeout,
\* echo=True) on an open port
InitReadShell ==
    /\ rl_pc = "poll"
    /\ rl_echo = TRUE
    /\ rl_timeout \in RlTimeouts
    /\ rl_elapsed = 0
    /\ rl_buffer = <<>>
    /\ rl_byte = NoByte
    /\ rl_nread = 0
    /\ rl_tx = <<>>
    /\ rl_ret = NoLine
    /\ rl_sent = <<>>
    /\ rl_start = 0
    /\ rl_peeks = {}
    /\ rl_lines = <<>>
    /\ sh_pc = "prompt"
    /\ sh_ret = "none"
    /\ sh_stream = TRUE
    /\ sh_config = [model |-> Missing, line_delay_ms |-> Missing]
    /\ sh_disk = sh_config
    /\ sh_saved = FALSE
    /\ sh_delay = LINE_DELAY_MS
    /\ sh_model = DefaultModelText
    /\ sh_debug_rx = FALSE
    /\ sh_pagination = TRUE
    /\ sh_input = None
    /\ sh_request = <<>>
    /\ sh_out = ShBanner
    /\ hs_max_turns = 1
    /\ hs_max_chars = MAX_HISTORY_CHARS
    /\ hs_messages = <<>>
    /\ hs_file = NoFile
    /\ hs_op = "load"
    /\ hs_before = <<>>
    /\ DisplayIdle
    /\ ProbeIdle
    /\ TransportIdle
    /\ ClientIdle
    /\ MainIdle

NextReadShell ==
    RlSend(RlShellKeys) \/ RlRecv \/ RlNoByte \/ RlPeek \/ RlDeadline \/ ShReadTurn

SpecReadShell == InitReadShell /\ [][NextReadShell]_vars

\* A step in which run_shell handles the line read_line returned
ShHandlesLine == rl_pc = "returned" /\ rl_pc' # "returned"

\* In that step the line is dispatched: it is a local command or it is sent
\* to the remote service
ShDispatches ==
    /\ ShHandlesLine
    /\ sh_input' # None
    /\ Strip(sh_input') # <<>>

\* C32: run_shell dispatches only lines that ended with CR or LF; what was
\* typed without a terminator when read_line's deadline passed is not
\* dispatched.
C32_OnlyTerminatedLinesDispatched ==
    [][ShDispatches => rl_lines[Len(rl_lines)].by = "terminator"]_vars

\* A request was made to the remote service with a letter typed and never
\* followed by Enter
C32_UnterminatedSent ==
    /\ rl_sent = <<65>>
    /\ rl_lines = <<[ret |-> <<65>>, by |-> "deadline"]>>
    /\ sh_request # <<>>
    /\ sh_request[1].messages = <<[role |-> "user", content |-> <<"A">>]>>

\* A turn in which a request was made to the remote service
ShExchange == sh_pc = "prompt" /\ sh_request' # <<>>

\* In that turn: the text call() yielded, as handed to the display
ShAnswer == sh_out'[2].text

\* In that turn: call() ended with its error line; the exception handler of
\* lines 1056-1060 ran
ShRemoteFailed == ShAnswer \in ShErrorLines
ShRaised == \E k \in 1..Len(sh_out') : sh_out'[k] = ShWriteln(MsgApiError)

\* In that turn: the history gained the user message then the assistant
\* message, the oldest messages leaving it when a cap is passed
ShBothAdded ==
    LET user == [role |-> "user", content |-> Strip(sh_input')]
        assistant == [role |-> "assistant", content |-> ShAnswer]
        with_user == Trim(Append(hs_messages, user), hs_max_turns, hs_max_chars)
    IN /\ hs_messages' = Trim(Append(with_user, assistant), hs_max_turns, hs_max_chars)
       /\ Len(hs_messages') >= 2
       /\ hs_messages'[Len(hs_messages') - 1] = user
       /\ hs_messages'[Len(hs_messages')] = assistant

\* C31: an exchange whose remote call fails leaves the history and its file
\* as they were; a successful exchange appends the user message then the
\* assistant message.
C31_FailedExchangeNotRecorded ==
    [][ShExchange =>
         IF ShRemoteFailed \/ ShRaised
         THEN hs_messages' = hs_messages /\ hs_file' = hs_file
         ELSE ShBothAdded]_vars

\* What the code does: the history is left alone only when the exchange
\* raised; the error line of call() is recorded as an assistant message
C31_OnlyRaisedNotRecorded ==
    [][ShExchange =>
         IF ShRaised
         THEN hs_messages' = hs_messages /\ hs_file' = hs_file
         ELSE ShBothAdded]_vars

\* The history ends with a message and the error line as its answer, and
\* the file holds both
C31_ErrorLineRecorded ==
    /\ Len(hs_messages) >= 2
    /\ hs_messages[Len(hs_messages)].role = "assistant"
    /\ hs_messages[Len(hs_messages)].content \in ShErrorLines
    /\ hs_messages[Len(hs_messages) - 1] = [role |-> "user", content |-> <<"h", "i">>]
    /\ hs_file = FileOf(hs_messages)

\* ------------------------------------------------------------------------
\* The two transports, SerialMinitel and SimulatedMinitel, one call at a
\* time.  tr_in is what the terminal has sent and no call has taken yet: the
\* input buffer of the serial port, or standard input.  A write is what goes
\* to the serial line, or to standard output.
\* ------------------------------------------------------------------------
\* Bytes the terminal (or the keyboard) sends
TrKeys == {65, 10}

\* Texts the caller writes: empty, a letter, an accented letter and a
\* character outside Latin-1
TrTexts == {<<>>, <<65>>, <<233, 8364>>}

\* What a call returns: nothing a caller looks at, None, or a value
TrNothing == [none |-> TRUE, value |-> <<>>]
TrValue(v) == [none |-> FALSE, value |-> v]

\* The last call, what it wrote, how many bytes it took, what it returned
TrDone(op, emitted, taken, result) ==
    /\ tr_op' = op
    /\ tr_was_open' = tr_open
    /\ tr_emitted' = emitted
    /\ tr_taken' = taken
    /\ tr_ret' = result
    /\ tr_in' = SubSeq(tr_in, taken + 1, Len(tr_in))

\* The terminal sends a byte; a closed serial port does not keep it
TrType ==
    /\ tr_kind = "simulated" \/ tr_open
    /\ Len(tr_in) < MaxIn
    /\ \E byte \in TrKeys : tr_in' = Append(tr_in, byte)
    /\ UNCHANGED <<tr_kind, tr_open, tr_op, tr_was_open, tr_emitted, tr_taken, tr_ret>>
    /\ UNCHANGED offTransport

\* lines 328-345 (serial.Serial may raise) and 490-492
TrOpen ==
    /\ \E ok \in IF tr_kind = "serial" THEN BOOLEAN ELSE {TRUE} :
         /\ tr_open' = IF tr_kind = "serial" THEN ok ELSE TRUE
         /\ tr_in' = IF tr_kind = "serial" THEN <<>> ELSE tr_in
         /\ tr_ret' = TrValue(<<ok>>)
    /\ tr_op' = "open"
    /\ tr_was_open' = tr_open
    /\ tr_emitted' = <<>>
    /\ tr_taken' = 0
    /\ UNCHANGED tr_kind
    /\ UNCHANGED offTransport

\* lines 347-352 and 494-495
TrClose ==
    /\ tr_open' = FALSE
    /\ tr_in' = IF tr_kind = "serial" THEN <<>> ELSE tr_in
    /\ tr_op' = "close"
    /\ tr_was_open' = tr_open
    /\ tr_emitted' = <<>>
    /\ tr_taken' = 0
    /\ tr_ret' = TrNothing
    /\ UNCHANGED tr_kind
    /\ UNCHANGED offTransport

\* SimulatedWrite with the test SerialMinitel.write makes
SimulatedWrite_Guarded(is_open, s) == IF is_open THEN EncodeLatin1(s) ELSE <<>>

\* line 504: print(sanitize_latin1(text), end="")
SimulatedWrite(is_open, s) == EncodeLatin1(s)

\* lines 361-371 and 503-504
TrEmit(s) ==
    IF tr_kind = "serial"
    THEN IF ~tr_open THEN <<>> ELSE SerialWrite(<<>>, s)
    ELSE SimulatedWrite(tr_open, s)

TrWrite ==
    /\ \E s \in TrTexts : TrDone("write", TrEmit(s), 0, TrNothing)
    /\ UNCHANGED <<tr_kind, tr_open>>
    /\ UNCHANGED offTransport

\* lines 373-377 (the text and "\r\n") and 506-509 (print ends the line
\* with "\n")
TrWriteln ==
    /\ \E s \in TrTexts :
         TrDone("writeln",
                IF tr_kind = "serial" THEN TrEmit(s \o <<13, 10>>)
                ELSE SimulatedWrite(tr_open, s) \o <<10>>,
                0, TrNothing)
    /\ UNCHANGED <<tr_kind, tr_open>>
    /\ UNCHANGED offTransport

\* lines 392-407 and 518-525: a byte that waits is taken, None after the
\* timeout when none does
TrReadByte ==
    /\ IF tr_kind = "serial" /\ ~tr_open
       THEN TrDone("read_byte", <<>>, 0, TrNothing)
       ELSE IF tr_in # <<>>
       THEN TrDone("read_byte", <<>>, 1, TrValue(<<tr_in[1]>>))
       ELSE TrDone("read_byte", <<>>, 0, TrNothing)
    /\ UNCHANGED <<tr_kind, tr_open>>
    /\ UNCHANGED offTransport

\* lines 420-461, no byte arriving during the call: the bytes that wait are
\* handled in order up to the first terminator; f.taken counts them
RECURSIVE TrSerialLine(_, _)
TrSerialLine(bytes, f) ==
    IF bytes = <<>> \/ f.pc = "peek" THEN f
    ELSE LET g == RlOnByte([pc |-> f.pc, buffer |-> f.buffer, tx |-> f.tx], Head(bytes), TRUE)
         IN TrSerialLine(Tail(bytes),
                         [pc |-> g.pc, buffer |-> g.buffer, tx |-> g.tx, taken |-> f.taken + 1])

\* lines 409-461
SerialReadLine ==
    IF ~tr_open THEN TrDone("read_line", <<>>, 0, TrNothing)
    ELSE LET f == TrSerialLine(tr_in, [pc |-> "poll", buffer |-> <<>>, tx |-> <<>>, taken |-> 0])
             next_byte == IF f.taken < Len(tr_in) THEN tr_in[f.taken + 1] ELSE NoByte
         IN IF f.pc = "peek"
            THEN TrDone("read_line", SerialWrite(f.tx, <<13, 10>>),
                        f.taken + RlPeekTaken(next_byte), TrValue(f.buffer))
            ELSE TrDone("read_line", f.tx, f.taken,
                        IF RlAtDeadline(f.buffer) = NoLine THEN TrNothing
                        ELSE TrValue(f.buffer))

\* lines 527-534: input() waits for a whole line and returns it without its
\* line feed
SimulatedReadLine ==
    /\ FirstNewline(tr_in) > 0
    /\ TrDone("read_line", <<>>, FirstNewline(tr_in),
              TrValue(SubSeq(tr_in, 1, FirstNewline(tr_in) - 1)))

TrReadLine ==
    /\ IF tr_kind = "serial" THEN SerialReadLine ELSE SimulatedReadLine
    /\ UNCHANGED <<tr_kind, tr_open>>
    /\ UNCHANGED offTransport

\* lines 312-326 and 484-488: a transport has been built, not opened yet
InitTransport ==
    /\ tr_kind \in {"serial", "simulated"}
    /\ tr_open = FALSE
    /\ tr_in = <<>>
    /\ tr_op = "new"
    /\ tr_was_open = FALSE
    /\ tr_emitted = <<>>
    /\ tr_taken = 0
    /\ tr_ret = TrNothing
    /\ DisplayIdle
    /\ ReadLineIdle
    /\ ProbeIdle
    /\ HistoryIdle
    /\ ShellIdle
    /\ ClientIdle
    /\ MainIdle

NextTransport ==
    TrType \/ TrOpen \/ TrClose \/ TrWrite \/ TrWriteln \/ TrReadByte \/ TrReadLine

SpecTransport == InitTransport /\ [][NextTransport]_vars

\* ------------------------------------------------------------------------
\* Claims about the transports
\* ------------------------------------------------------------------------
\* The last call was a write or a read made while the transport was closed
TrClosedCall ==
    tr_op \in {"write", "writeln", "read_byte", "read_line"} /\ ~tr_was_open

\* C20: on both transports, a write or writeln made while the transport is
\* closed puts nothing on the terminal, and a read_byte or read_line made
\* while it is closed returns None and takes no input.
C20_ClosedIsInert ==
    TrClosedCall => (tr_emitted = <<>> /\ tr_taken = 0 /\ tr_ret = TrNothing)

\* The same on SerialMinitel alone
C20_SerialClosedIsInert ==
    (tr_kind = "serial" /\ TrClosedCall) =>
        (tr_emitted = <<>> /\ tr_taken = 0 /\ tr_ret = TrNothing)

\* A closed serial transport was asked for a line after it had been open
C20_SerialWitness ==
    tr_kind = "serial" /\ TrClosedCall /\ tr_op = "read_line" /\ tr_ret = TrNothing

\* ------------------------------------------------------------------------
\* OpenAIClientWrapper.call: a generator.  An attempt yields chunks, then
\* returns or raises; str(e) is the text of the exception, and `transient`
\* says whether the failure is one of rate limiting, a timeout, a lost
\* connection or a 5xx answer.
\* ------------------------------------------------------------------------
\* lines 236-237
max_retries == 3
RETRY_DELAY == 2

\* The exceptions an attempt may raise; the last is the answer to a request
\* for a model named "connection" (404, the name is part of the message)
OcErrors ==
    {[type |-> "RateLimitError", transient |-> TRUE, text |-> <<"R", "a", "t", "e", " ", "l", "i", "m", "i", "t", " ", "r", "e", "a", "c", "h", "e", "d">>],
     [type |-> "APITimeoutError", transient |-> TRUE, text |-> <<"R", "e", "q", "u", "e", "s", "t", " ", "t", "i", "m", "e", "d", " ", "o", "u", "t", ".">>],
     [type |-> "APIConnectionError", transient |-> TRUE, text |-> <<"C", "o", "n", "n", "e", "c", "t", "i", "o", "n", " ", "e", "r", "r", "o", "r", ".">>],
     [type |-> "InternalServerError", transient |-> TRUE, text |-> <<"E", "r", "r", "o", "r", " ", "c", "o", "d", "e", ":", " ", "5", "0", "3">>],
     [type |-> "AuthenticationError", transient |-> FALSE, text |-> <<"E", "r", "r", "o", "r", " ", "c", "o", "d", "e", ":", " ", "4", "0", "1">>],
     [type |-> "NotFoundError", transient |-> FALSE, text |-> <<"T", "h", "e", " ", "m", "o", "d", "e", "l", " ", "'", "c", "o", "n", "n", "e", "c", "t", "i", "o", "n", "'", " ", "d", "o", "e", "s", " ", "n", "o", "t", " ", "e", "x", "i", "s", "t">>]}

\* x in s, for two strings
InText(x, s) == \E i \in 1..(Len(s) - Len(x) + 1) : SubSeq(s, i, i + Len(x) - 1) = x

\* line 250: the words looked for in str(e).lower()
OcWords == {<<"r", "a", "t", "e", " ", "l", "i", "m", "i", "t">>, <<"t", "i", "m", "e", "o", "u", "t">>, <<"c", "o", "n", "n", "e", "c", "t", "i", "o", "n">>, <<"5", "0", "3">>, <<"5", "0", "2">>}

\* line 250
OcRetryable(e) == \E x \in OcWords : InText(x, Lower(e.text))

\* The fragments the current attempt has yielded
OcYielded == {k \in 1..Len(oc_out) : oc_out[k].kind = "chunk" /\ oc_out[k].attempt = oc_attempt}

\* lines 270-272 and 292-295: the attempt yields the next fragment of the
\* response to its own request, the first fragment coming first
OcChunk ==
    /\ oc_pc = "attempt"
    /\ Cardinality({k \in 1..Len(oc_out) : oc_out[k].kind = "chunk"}) < MaxChunks
    /\ oc_out' = Append(oc_out, [kind |-> "chunk", type |-> "str", attempt |-> oc_attempt,
                                  index |-> Cardinality(OcYielded) + 1])
    /\ UNCHANGED <<oc_pc, oc_attempt, oc_retry_delay, oc_slept, oc_raised>>
    /\ UNCHANGED offClient

\* line 246: the attempt is over, the generator returns
OcReturn ==
    /\ oc_pc = "attempt"
    /\ oc_pc' = "done"
    /\ UNCHANGED <<oc_attempt, oc_retry_delay, oc_slept, oc_out, oc_raised>>
    /\ UNCHANGED offClient

\* lines 247-260: the attempt raises e
OcRaise ==
    /\ oc_pc = "attempt"
    /\ \E e \in OcErrors :
         /\ oc_raised' = Append(oc_raised, e)
         /\ IF OcRetryable(e) /\ oc_attempt < max_retries - 1
            THEN /\ oc_slept' = Append(oc_slept, oc_retry_delay)
                 /\ oc_retry_delay' = oc_retry_delay * 2
                 /\ oc_attempt' = oc_attempt + 1
                 /\ UNCHANGED <<oc_pc, oc_out>>
            ELSE /\ oc_out' = Append(oc_out, [kind |-> "error", type |-> e.type,
                                              attempt |-> oc_attempt, index |-> 0])
                 /\ oc_pc' = "done"
                 /\ UNCHANGED <<oc_attempt, oc_retry_delay, oc_slept>>
    /\ UNCHANGED offClient

\* lines 236-239: the generator has been started
InitClient ==
    /\ oc_pc = "attempt"
    /\ oc_attempt = 0
    /\ oc_retry_delay = RETRY_DELAY
    /\ oc_slept = <<>>
    /\ oc_out = <<>>
    /\ oc_raised = <<>>
    /\ DisplayIdle
    /\ ReadLineIdle
    /\ ProbeIdle
    /\ HistoryIdle
    /\ ShellIdle
    /\ TransportIdle
    /\ MainIdle

NextClient == OcChunk \/ OcReturn \/ OcRaise

SpecClient == InitClient /\ [][NextClient]_vars

\* ------------------------------------------------------------------------
\* Claims about OpenAIClientWrapper.call
\* ------------------------------------------------------------------------
\* The error lines yielded so far
OcErrorLines == {k \in 1..Len(oc_out) : oc_out[k].kind = "error"}

\* The attempts that raised and were followed by another attempt
OcRetried == 1..(IF oc_pc = "done" /\ OcErrorLines # {} THEN Len(oc_raised) - 1
                 ELSE Len(oc_raised))

\* What holds of every call, whatever the failures are: three attempts at
\* most, sleeps of 2 s then 4 s between them, one error line after the
\* failure that ends the call
OcAttemptsAndLines ==
    /\ oc_attempt + 1 <= 3
    /\ Len(oc_raised) <= 3
    /\ Len(oc_slept) = Cardinality(OcRetried)
    /\ \A k \in 1..Len(oc_slept) : oc_slept[k] = (IF k = 1 THEN 2 ELSE 4)
    /\ Cardinality(OcErrorLines) <= 1
    /\ (oc_pc = "done" /\ Len(oc_raised) > Cardinality(OcRetried)) =>
          (OcErrorLines = {Len(oc_out)}
             /\ oc_out[Len(oc_out)].type = oc_raised[Len(oc_raised)].type)

\* C21: at most three attempts are made; an attempt is made again only after
\* a transient failure, after 2 s and then 4 s; a fatal failure is never
\* followed by another attempt; a fatal failure or a third failure gives
\* exactly one error line.
C21_RetryPolicy ==
    /\ OcAttemptsAndLines
    /\ \A k \in OcRetried : oc_raised[k].transient

\* The same, a failure counting as transient when line 250 finds one of its
\* words in the text of the exception
C21_RetryPolicyByText ==
    /\ OcAttemptsAndLines
    /\ \A k \in OcRetried : OcRetryable(oc_raised[k])
    /\ \A k \in 1..Len(oc_raised) :
          (OcRetryable(oc_raised[k]) /\ k < 3) => k \in OcRetried

\* Two failures whose text holds one of the words, then a third: slept 2 s
\* and 4 s, one error line
C21_ByTextWitness ==
    /\ oc_pc = "done"
    /\ Len(oc_raised) = 3
    /\ oc_slept = <<2, 4>>
    /\ OcErrorLines = {Len(oc_out)}

\* The fragments yielded so far, and the attempts they come from
OcFragments == {k \in 1..Len(oc_out) : oc_out[k].kind = "chunk"}
OcSources == {oc_out[k].attempt : k \in OcFragments}

\* C33: within one call no fragment of the response is yielded twice: the
\* fragments yielded all come from one attempt, each place of the response
\* once, and at most one error line follows them.
C33_TextOfOneAttempt ==
    /\ Cardinality(OcSources) <= 1
    /\ \A j, k \in OcFragments : oc_out[j].index = oc_out[k].index => j = k
    /\ Cardinality(OcErrorLines) <= 1
    /\ \A k \in OcErrorLines : k = Len(oc_out)

\* What the code does: within an attempt the fragments come once and in
\* order, an attempt made again starts from the first fragment, and at most
\* one error line ends the text
C33_EachAttemptFromItsStart ==
    /\ \A a \in OcSources :
          LET of_a == {k \in OcFragments : oc_out[k].attempt = a}
          IN {oc_out[k].index : k \in of_a} = 1..Cardinality(of_a)
    /\ \A j, k \in OcFragments :
          (j < k) => \/ oc_out[j].attempt < oc_out[k].attempt
                     \/ oc_out[j].attempt = oc_out[k].attempt /\ oc_out[j].index < oc_out[k].index
    /\ Cardinality(OcErrorLines) <= 1
    /\ \A k \in OcErrorLines : k = Len(oc_out)

\* The first fragment was yielded, the attempt failed with a failure that
\* is retried, and the second attempt yielded the first fragment again
C33_FirstFragmentTwice ==
    /\ oc_pc = "done"
    /\ Len(oc_raised) = 1
    /\ OcErrorLines = {}
    /\ Len(oc_out) = 2
    /\ oc_out[1].index = 1 /\ oc_out[1].attempt = 0
    /\ oc_out[2].index = 1 /\ oc_out[2].attempt = 1

\* ------------------------------------------------------------------------
\* main: the life of the process.  A session is a run_shell call; the
\* prober is run_serial_autoconfig, followed here by the serial.Serial
\* handles it opens and closes.  One interrupt signal at most arrives.
\* ------------------------------------------------------------------------
MnState ==
    [pc |-> mn_pc, file |-> mn_file, data |-> mn_data, session_open |-> mn_session_open,
     probe_open |-> mn_probe_open, saved |-> mn_saved, sessions |-> mn_sessions,
     interrupted |-> mn_interrupted, restarted |-> mn_restarted,
     since_reset |-> mn_since_reset, since_retry |-> mn_since_retry]

MnStore(s) ==
    /\ mn_pc' = s.pc
    /\ mn_file' = s.file
    /\ mn_data' = s.data
    /\ mn_session_open' = s.session_open
    /\ mn_probe_open' = s.probe_open
    /\ mn_saved' = s.saved
    /\ mn_sessions' = s.sessions
    /\ mn_interrupted' = s.interrupted
    /\ mn_restarted' = s.restarted
    /\ mn_since_reset' = s.since_reset
    /\ mn_since_retry' = s.since_retry
    /\ UNCHANGED <<mn_simulate, mn_port_arg>>
    /\ UNCHANGED offMain

\* lines 569-574: run_serial_autoconfig is entered
MnProberStarts(s) ==
    [s EXCEPT !.pc = "probe", !.since_reset = FALSE, !.since_retry = FALSE]

\* lines 109-119: what config.load() leaves in config.data
MnLoaded(file) == IF file = "stored" THEN "file" ELSE IF file = "noport" THEN "noport" ELSE "empty"

\* lines 1137-1168: the configuration is chosen at the top of the loop
MnConfig ==
    /\ mn_pc = "config"
    /\ MnStore(IF mn_port_arg
               THEN [MnState EXCEPT !.data = "arg", !.pc = "open"]
               ELSE IF mn_file = "absent"
               THEN MnProberStarts(MnState)
               ELSE IF MnLoaded(mn_file) = "noport"
               THEN MnProberStarts([MnState EXCEPT !.data = "noport"])
               ELSE [MnState EXCEPT !.data = MnLoaded(mn_file), !.pc = "open"])

\* lines 627-640: the prober opens a handle for the next candidate, or fails to
MnProbeOpen ==
    /\ mn_pc = "probe"
    /\ \E ok \in BOOLEAN :
         MnStore(IF ok THEN [MnState EXCEPT !.pc = "probing", !.probe_open = TRUE]
                 ELSE MnState)

\* The ways a candidate whose handle is open ends
PrOutcomes == {"winner", "no response", "write failure", "read error"}

\* PrCloses when a read error leaves the loop without closing
PrCloses_NotOnReadError(outcome) == outcome # "read error"

\* lines 653, 678 and 705: ser.close() is called
PrCloses(outcome) == outcome \in PrOutcomes

\* lines 648-705, and 1157-1158 or 1166-1167 for the winner
MnProbeOutcome ==
    /\ mn_pc = "probing"
    /\ \E outcome \in PrOutcomes :
         MnStore(IF outcome = "winner"
                 THEN [MnState EXCEPT !.probe_open = ~PrCloses(outcome), !.data = "file",
                                      !.file = "stored", !.pc = "open"]
                 ELSE [MnState EXCEPT !.probe_open = ~PrCloses(outcome), !.pc = "probe"])

\* lines 1152-1154 and 1164-1165: the prober returned None
MnProbeNone ==
    /\ mn_pc = "probe"
    /\ MnStore([MnState EXCEPT !.pc = "exit"])

\* lines 1170-1184: the session transport is built and opened
MnOpen ==
    /\ mn_pc = "open"
    /\ \E ok \in BOOLEAN :
         MnStore(IF ok
                 THEN [MnState EXCEPT !.pc = "banner", !.session_open = TRUE, !.saved = FALSE,
                                      !.sessions = Min(mn_sessions + 1, MaxSessions),
                                      !.restarted = mn_interrupted]
                 ELSE [MnState EXCEPT !.pc = "ask", !.restarted = mn_interrupted])

\* lines 1188-1193: the operator answers "Relancer la configuration?"
MnAsk ==
    /\ mn_pc = "ask"
    /\ \E retry \in BOOLEAN :
         MnStore(IF retry
                 THEN [MnState EXCEPT !.data = "empty", !.pc = "config", !.since_retry = TRUE]
                 ELSE [MnState EXCEPT !.pc = "exit"])

\* lines 935-941: run_shell has written its banner
MnBanner ==
    /\ mn_pc = "banner"
    /\ MnStore([MnState EXCEPT !.pc = "session"])

\* lines 1213-1215 and 1128-1130: the finally clause
MnFinally(s) == [s EXCEPT !.session_open = FALSE, !.saved = TRUE]

\* lines 971-973, then 1208-1217 or 1128-1131: "/quit"
MnQuit ==
    /\ mn_pc = "session"
    /\ MnStore([MnFinally(MnState) EXCEPT !.pc = "exit"])

\* lines 1204-1209 and the finally clause
MnAfterReset(s) ==
    [MnFinally(s) EXCEPT !.data = "empty", !.file = "absent", !.since_reset = TRUE,
                         !.pc = "config"]

\* lines 975-977: "/reset"; the simulated mode does not look at the result
MnReset ==
    /\ mn_pc = "session"
    /\ MnStore(IF mn_simulate THEN [MnFinally(MnState) EXCEPT !.pc = "exit"]
               ELSE MnAfterReset(MnState))

\* Where a session is when the interrupt signal arrives
MnWhere == {"input", "output"}

\* An interrupt signal arrives.  In the banner, run_shell has no handler:
\* main's handler runs (lines 1211-1212 or 1127-1128), then the finally
\* clause, and in serial mode the loop goes on.  In the loop, run_shell's
\* handler (lines 1063-1066) leaves the session, except while
\* SimulatedMinitel.read_line waits: it returns None (lines 533-534) and
\* the loop goes on.
MnInterrupt ==
    /\ mn_pc \in {"banner", "session"}
    /\ ~mn_interrupted
    /\ \E where \in MnWhere :
         LET s == [MnState EXCEPT !.interrupted = TRUE]
         IN MnStore(IF mn_pc = "banner"
                    THEN [MnFinally(s) EXCEPT !.pc = IF mn_simulate THEN "exit" ELSE "config"]
                    ELSE IF mn_simulate /\ where = "input"
                    THEN s
                    ELSE [MnFinally(s) EXCEPT !.pc = "exit"])

\* lines 1088-1133: the process has started; in simulated mode the
\* transport is open and run_shell has been called
InitMain ==
    /\ mn_simulate \in BOOLEAN
    /\ mn_port_arg \in IF mn_simulate THEN {FALSE} ELSE BOOLEAN
    /\ mn_file \in {"absent", "noport", "stored"}
    /\ mn_data = IF mn_simulate THEN "simulate" ELSE "empty"
    /\ mn_pc = IF mn_simulate THEN "banner" ELSE "config"
    /\ mn_session_open = mn_simulate
    /\ mn_sessions = IF mn_simulate THEN 1 ELSE 0
    /\ mn_probe_open = FALSE
    /\ mn_saved = FALSE
    /\ mn_interrupted = FALSE
    /\ mn_restarted = FALSE
    /\ mn_since_reset = FALSE
    /\ mn_since_retry = FALSE
    /\ DisplayIdle
    /\ ReadLineIdle
    /\ ProbeIdle
    /\ HistoryIdle
    /\ ShellIdle
    /\ TransportIdle
    /\ ClientIdle

NextMain ==
    \/ MnConfig
    \/ MnProbeOpen
    \/ MnProbeOutcome
    \/ MnProbeNone
    \/ MnOpen
    \/ MnAsk
    \/ MnBanner
    \/ MnQuit
    \/ MnReset
    \/ MnInterrupt

SpecMain == InitMain /\ [][NextMain]_vars

\* The steps main takes by itself are taken; what the operator, the
\* terminal and the serial port do is not forced
SpecMainFair ==
    SpecMain /\ WF_vars(MnConfig) /\ WF_vars(MnOpen) /\ WF_vars(MnBanner)

\* ------------------------------------------------------------------------
\* Claims about main
\* ------------------------------------------------------------------------
\* C22: once an interrupt signal has arrived during a session, no transport
\* is opened and no session is started again, and the process comes to its
\* exit with the session transport closed and the history saved.
C22_InterruptShutsDown ==
    /\ [](mn_interrupted => ~mn_restarted)
    /\ mn_interrupted ~> (mn_pc = "exit" /\ ~mn_session_open /\ mn_saved)

\* C23: after the session transport failed to open, the operator either
\* aborts, and the process exits, or reconfigures, and then the session
\* transport is not opened again before the prober has run.
C23_ReconfigureRunsProber ==
    /\ [](mn_pc = "open" => ~mn_since_retry)
    /\ [][mn_pc = "ask" => mn_pc' \in {"exit", "config"}]_vars

\* C25: the prober and the session never hold a handle at the same time;
\* the prober holds none when it goes to its next candidate and none when
\* it has returned; the session transport is closed whenever main is back
\* at the top of its loop, so before any later run of the prober.
C25_OneHandle ==
    /\ ~(mn_session_open /\ mn_probe_open)
    /\ mn_pc \in {"probe", "config", "open", "ask", "exit"} =>
          (~mn_probe_open /\ ~mn_session_open)
    /\ mn_pc = "probing" => ~mn_session_open
    /\ mn_pc \in {"banner", "session"} => ~mn_probe_open

\* The prober holds a handle after a session has been run and left
C25_Witness ==
    /\ mn_pc = "probing"
    /\ mn_probe_open
    /\ mn_sessions >= 1
    /\ ~mn_session_open

\* C30: after "/reset" in serial mode the session is over, the transport is
\* closed, config.data is empty and the configuration file is gone, and no
\* session transport is opened before the prober has run.
C30_ResetProbesAgain ==
    /\ mn_since_reset => mn_pc \notin {"open", "ask", "banner", "session"}
    /\ (mn_since_reset /\ mn_pc = "config") =>
          (~mn_session_open /\ mn_data = "empty" /\ mn_file = "absent")

====
